---- MODULE Spec2Model ----
(***************************************************************************)
(* Model of the knowledge-graph engine: the KnowledgeGraph class           *)
(* (src/src/extraction/index.ts, lines 576-1252) running on the            *)
(* SQLiteAdapter (src/unnamed/part_004) with foreign keys switched on.     *)
(*                                                                         *)
(* Texts are sequences of one-character strings, so that toLowerCase and   *)
(* split(/\s+/) are computed character by character.  Confidence values    *)
(* are hundredths (100 stands for 1.0).  Timestamps are left out: no       *)
(* property below reads createdAt or updatedAt.                            *)
(***************************************************************************)
EXTENDS Integers, Sequences, FiniteSets, TLC

VARIABLES
  nodes,        \* kg_nodes: sequence of rows in rowid order
  edges,        \* kg_edges: sequence of rows in rowid order
  nodeIndex,    \* kg_node_indices: set of [indexKey, nodeId]
  edgeIndex,    \* kg_edge_indices: set of [indexKey, edgeId]
  searchIndex,  \* kg_search_index: sequence of [term, nodeId, field, weight]
  initialized,  \* KnowledgeGraph.initialized
  last,         \* the last call: [op, arg, result]
  returned      \* history: id -> the node addNode returned, until that id is
                \* next updated or deleted

vars == <<nodes, edges, nodeIndex, edgeIndex, searchIndex, initialized, last, returned>>

(***************************************************************************)
(* Bounds of the model.                                                    *)
(***************************************************************************)
MaxNodes == 2        \* node ids available to the store specification
MaxEdges == 2        \* edge ids available to the store specification

NodeIdOf(i) == "n" \o ToString(i)
EdgeIdOf(i) == "e" \o ToString(i)

(***************************************************************************)
(* General helpers on sequences.                                           *)
(***************************************************************************)
Range(s) == {s[i] : i \in 1..Len(s)}

RECURSIVE Concat(_)
Concat(ss) == IF ss = <<>> THEN <<>> ELSE Head(ss) \o Concat(Tail(ss))

RECURSIVE Dedup(_)
\* a JavaScript Set keeps the first occurrence of each value, in insertion order
Dedup(s) ==
  IF s = <<>> THEN <<>>
  ELSE LET front == Dedup(SubSeq(s, 1, Len(s) - 1))
           x     == s[Len(s)]
       IN  IF x \in Range(front) THEN front ELSE Append(front, x)

Has(r, f) == f \in DOMAIN r

(***************************************************************************)
(* Text: String.prototype.toLowerCase and String.prototype.split(/\s+/).   *)
(***************************************************************************)
Lower(c) ==
  CASE c = "A" -> "a"
    [] c = "B" -> "b"
    [] c = "Q" -> "q"
    [] OTHER   -> c

toLowerCase(s) == [i \in 1..Len(s) |-> Lower(s[i])]

IsSpace(c) == c \in {" ", "\t", "\n"}

RECURSIVE SkipSpaces(_, _)
SkipSpaces(s, i) == IF i <= Len(s) /\ IsSpace(s[i]) THEN SkipSpaces(s, i + 1) ELSE i

RECURSIVE SplitFrom(_, _, _, _)
SplitFrom(s, i, cur, acc) ==
  IF i > Len(s) THEN Append(acc, cur)
  ELSE IF IsSpace(s[i]) THEN SplitFrom(s, SkipSpaces(s, i), <<>>, Append(acc, cur))
  ELSE SplitFrom(s, i + 1, Append(cur, s[i]), acc)

\* s.split(/\s+/): the pieces between maximal runs of whitespace; a leading or
\* trailing run, and the empty text, give an empty piece
SplitWhitespace(s) == SplitFrom(s, 1, <<>>, <<>>)

(***************************************************************************)
(* Property objects and JSON.  An object is a sequence of <<key, value>>   *)
(* members with distinct keys, in insertion order; a value is              *)
(* [t |-> "string", v |-> text] or [t |-> "number", v |-> n].              *)
(***************************************************************************)
EmptyObject == <<>>

ObjKeys(o) == {o[i][1] : i \in 1..Len(o)}

ObjGet(o, k) == (CHOOSE i \in 1..Len(o) : o[i][1] = k)

\* the object as a map, for comparing objects regardless of member order
ObjAsMap(o) == [k \in ObjKeys(o) |-> o[ObjGet(o, k)][2]]

\* mutant: the second object alone
SpreadSecondOnly(a, b) == b

\* { ...a, ...b }
SpreadMerge(a, b) ==
  [i \in 1..Len(a) |-> IF a[i][1] \in ObjKeys(b)
                         THEN <<a[i][1], b[ObjGet(b, a[i][1])][2]>>
                         ELSE a[i]]
  \o SelectSeq(b, LAMBDA m : m[1] \notin ObjKeys(a))

JSONStringifyObject(o) == [json |-> "object", members |-> o]
JSONStringifyArray(a)  == [json |-> "array", items |-> a]
JSONParse(t) == IF t.json = "object" THEN t.members ELSE t.items

(***************************************************************************)
(* Program constants.                                                      *)
(***************************************************************************)
DefaultConfidence == 100   \* options.confidence || 1.0
SearchWeight == 100        \* weight: 1.0
DefaultDepth == 1          \* options?.depth || 1
QueryEdgesLimit == 100     \* queryEdges(conditions, limit = 100, offset = 0)

(***************************************************************************)
(* SQLiteAdapter: rows, (de)serialisation and the table operations.        *)
(* A node row is [id, type, label, properties, confidence] with the        *)
(* optional field sourceSessionIds (absent = NULL); properties and         *)
(* sourceSessionIds are JSON texts.                                        *)
(***************************************************************************)
deserializeNode(row) ==
  IF Has(row, "sourceSessionIds")
    THEN [row EXCEPT !.properties = JSONParse(@), !.sourceSessionIds = JSONParse(@)]
    ELSE [row EXCEPT !.properties = JSONParse(@)]

deserializeEdge(row) ==
  IF Has(row, "sourceSessionIds")
    THEN [row EXCEPT !.properties = JSONParse(@), !.sourceSessionIds = JSONParse(@)]
    ELSE [row EXCEPT !.properties = JSONParse(@)]

\* SELECT ... WHERE id = ? LIMIT 1: a sequence of zero or one deserialised rows
AdapterGetNode(tbl, id) ==
  LET hit == SelectSeq(tbl, LAMBDA r : r.id = id)
  IN  IF hit = <<>> THEN <<>> ELSE <<deserializeNode(hit[1])>>

\* SELECT ... WHERE id IN (ids): the matching rows in table order
AdapterGetNodes(tbl, ids) ==
  LET hit == SelectSeq(tbl, LAMBDA r : r.id \in Range(ids))
  IN  [i \in 1..Len(hit) |-> deserializeNode(hit[i])]

AdapterGetEdges(tbl, ids) ==
  LET hit == SelectSeq(tbl, LAMBDA r : r.id \in Range(ids))
  IN  [i \in 1..Len(hit) |-> deserializeEdge(hit[i])]

AdapterInsertNode(tbl, row) == Append(tbl, row)

AdapterInsertEdge(tbl, row) == Append(tbl, row)

\* mutant: the UPDATE without its WHERE clause
AdapterUpdateNodeAllRows(tbl, id, updates) ==
  [i \in 1..Len(tbl) |->
     [f \in DOMAIN tbl[i] \cup DOMAIN updates |->
        IF f \in DOMAIN updates THEN updates[f] ELSE tbl[i][f]]]

\* UPDATE kg_nodes SET <the defined fields of updates> WHERE id = ?
AdapterUpdateNode(tbl, id, updates) ==
  [i \in 1..Len(tbl) |->
     IF tbl[i].id = id
       THEN [f \in DOMAIN tbl[i] \cup DOMAIN updates |->
               IF f \in DOMAIN updates THEN updates[f] ELSE tbl[i][f]]
       ELSE tbl[i]]

\* SELECT ... FROM kg_edges WHERE <every condition> LIMIT 100, in table order
AdapterQueryEdgesWhere(tbl, conditions) ==
  LET hit  == SelectSeq(tbl, LAMBDA r : \A k \in DOMAIN conditions : r[k] = conditions[k])
      kept == IF Len(hit) <= QueryEdgesLimit THEN Len(hit) ELSE QueryEdgesLimit
  IN  [i \in 1..kept |-> deserializeEdge(hit[i])]

\* SELECT ... FROM kg_edges WHERE <field> = <value> LIMIT 100, in table order
AdapterQueryEdges(tbl, field, value) ==
  LET hit  == SelectSeq(tbl, LAMBDA r : r[field] = value)
      kept == IF Len(hit) <= QueryEdgesLimit THEN Len(hit) ELSE QueryEdgesLimit
  IN  [i \in 1..kept |-> deserializeEdge(hit[i])]

\* the edges that ON DELETE CASCADE removes together with node id
CascadedEdgeIds(tbl, id) ==
  {tbl[i].id : i \in {j \in 1..Len(tbl) : tbl[j].fromNodeId = id \/ tbl[j].toNodeId = id}}

\* DELETE FROM kg_nodes WHERE id = ?, with the foreign keys of createTables
AdapterDeleteNodeRows(tbl, id) == SelectSeq(tbl, LAMBDA r : r.id # id)

\* mutant: to_node_id without ON DELETE CASCADE
AdapterCascadeEdgesFromOnly(tbl, id) == SelectSeq(tbl, LAMBDA r : r.fromNodeId # id)

\* kg_edges: from_node_id and to_node_id REFERENCES kg_nodes(id) ON DELETE CASCADE
AdapterCascadeEdges(tbl, id) ==
  SelectSeq(tbl, LAMBDA r : r.fromNodeId # id /\ r.toNodeId # id)

\* kg_node_indices: node_id REFERENCES kg_nodes(id) ON DELETE CASCADE
AdapterCascadeNodeIndex(idx, id) == {r \in idx : r.nodeId # id}

\* mutant: edge_id without ON DELETE CASCADE
AdapterCascadeEdgeIndexNone(idx, gone) == idx

\* kg_edge_indices: edge_id REFERENCES kg_edges(id) ON DELETE CASCADE
AdapterCascadeEdgeIndex(idx, gone) == {r \in idx : r.edgeId \notin gone}

\* kg_search_index: node_id REFERENCES kg_nodes(id) ON DELETE CASCADE
AdapterCascadeSearchIndex(idx, id) == SelectSeq(idx, LAMBDA r : r.nodeId # id)

\* mutant: the old search rows are kept
AdapterDeleteSearchIndexNone(idx, id) == idx

\* DELETE FROM kg_search_index WHERE node_id = ?
AdapterDeleteSearchIndex(idx, id) == SelectSeq(idx, LAMBDA r : r.nodeId # id)

\* DELETE FROM kg_edges WHERE id = ?
AdapterDeleteEdgeRows(tbl, id) == SelectSeq(tbl, LAMBDA r : r.id # id)

(***************************************************************************)
(* KnowledgeGraph helpers.                                                 *)
(***************************************************************************)
\* the adapter hands rows over deserialised, so the typeof-string branches of
\* normalizeNode are not taken; a missing sourceSessionIds stays missing
normalizeNode(node) ==
  IF Has(node, "sourceSessionIds")
    THEN [id |-> node.id, type |-> node.type, label |-> node.label,
          properties |-> node.properties, confidence |-> node.confidence,
          sourceSessionIds |-> node.sourceSessionIds]
    ELSE [id |-> node.id, type |-> node.type, label |-> node.label,
          properties |-> node.properties, confidence |-> node.confidence]

normalizeEdge(edge) ==
  IF Has(edge, "sourceSessionIds")
    THEN [id |-> edge.id, type |-> edge.type, fromNodeId |-> edge.fromNodeId,
          toNodeId |-> edge.toNodeId, properties |-> edge.properties,
          confidence |-> edge.confidence, sourceSessionIds |-> edge.sourceSessionIds]
    ELSE [id |-> edge.id, type |-> edge.type, fromNodeId |-> edge.fromNodeId,
          toNodeId |-> edge.toNodeId, properties |-> edge.properties,
          confidence |-> edge.confidence]

\* the terms indexNodeForSearch collects, in the order the Set yields them
SearchTermsOf(node) ==
  LET props == node.properties
      strs  == SelectSeq(props, LAMBDA m : m[2].t = "string")
  IN  Dedup(SplitWhitespace(toLowerCase(node.label))
            \o Concat([i \in 1..Len(strs) |-> SplitWhitespace(toLowerCase(strs[i][2].v))]))

indexNodeForSearch(idx, node) ==
  LET terms == SearchTermsOf(node)
  IN  idx \o [i \in 1..Len(terms) |->
                [term |-> terms[i], nodeId |-> node.id, field |-> "label",
                 weight |-> SearchWeight]]

NodeTypeKey(type) == "type:" \o type
EdgeFromKey(nodeId, type) == "from:" \o nodeId \o ":" \o type
EdgeToKey(nodeId, type) == "to:" \o nodeId \o ":" \o type
EdgeTypeKey(type) == "type:" \o type

\* crypto.randomUUID(): an id no stored row carries; the model takes the first
\* id of the pool that is free
FreshNodeId(tbl, pool) ==
  NodeIdOf(CHOOSE i \in 1..pool :
             /\ NodeIdOf(i) \notin {tbl[k].id : k \in 1..Len(tbl)}
             /\ \A j \in 1..(i - 1) : NodeIdOf(j) \in {tbl[k].id : k \in 1..Len(tbl)})

FreshEdgeId(tbl, pool) ==
  EdgeIdOf(CHOOSE i \in 1..pool :
             /\ EdgeIdOf(i) \notin {tbl[k].id : k \in 1..Len(tbl)}
             /\ \A j \in 1..(i - 1) : EdgeIdOf(j) \in {tbl[k].id : k \in 1..Len(tbl)})

(***************************************************************************)
(* KnowledgeGraph operations.  Each action is one call, run to its end.    *)
(***************************************************************************)
Init ==
  /\ nodes = <<>>
  /\ edges = <<>>
  /\ nodeIndex = {}
  /\ edgeIndex = {}
  /\ searchIndex = <<>>
  /\ initialized = FALSE
  /\ last = [op |-> "new", arg |-> <<>>, result |-> <<>>]
  /\ returned = <<>>

\* x || d for a number x: undefined and 0 are falsy
ConfidenceOrDefault(options) ==
  IF Has(options, "confidence") /\ options.confidence # 0
    THEN options.confidence
    ELSE DefaultConfidence

PropertiesOrEmpty(options) ==
  IF Has(options, "properties") THEN options.properties ELSE EmptyObject

\* the row addNode hands to insertNode
NewNodeRow(id, options) ==
  LET base == [id |-> id, type |-> options.type, label |-> options.label,
               properties |-> JSONStringifyObject(PropertiesOrEmpty(options)),
               confidence |-> ConfidenceOrDefault(options)]
  IN  IF Has(options, "sourceSessionId")
        THEN [f \in DOMAIN base \cup {"sourceSessionIds"} |->
                IF f = "sourceSessionIds"
                  THEN JSONStringifyArray(<<options.sourceSessionId>>)
                  ELSE base[f]]
        ELSE base

addNode(options, pool) ==
  /\ Len(nodes) < pool
  /\ LET id   == FreshNodeId(nodes, pool)
         row  == NewNodeRow(id, options)
         node == deserializeNode(row)
     IN  /\ nodes' = AdapterInsertNode(nodes, row)
         /\ searchIndex' = indexNodeForSearch(searchIndex, node)
         /\ nodeIndex' = nodeIndex \cup {[indexKey |-> NodeTypeKey(node.type), nodeId |-> node.id]}
         /\ last' = [op |-> "addNode", arg |-> options, result |-> normalizeNode(node)]
         /\ returned' = [i \in DOMAIN returned \cup {id} |->
                           IF i = id THEN normalizeNode(node) ELSE returned[i]]
  /\ initialized' = TRUE
  /\ UNCHANGED <<edges, edgeIndex>>

\* the properties updateNode stores
UpdatedProperties(existingProperties, updates, mergeProperties) ==
  IF mergeProperties /\ Has(updates, "properties")
    THEN SpreadMerge(existingProperties, updates.properties)
    ELSE IF Has(updates, "properties") THEN updates.properties ELSE existingProperties

\* the fields updateNode hands to adapter.updateNode (undefined ones are left out)
NodeUpdates(existingNode, updates, mergeProperties) ==
  LET existingSessionIds ==
        IF Has(existingNode, "sourceSessionIds") THEN existingNode.sourceSessionIds ELSE <<>>
      withSession ==
        Has(updates, "sourceSessionId") /\ updates.sourceSessionId \notin Range(existingSessionIds)
      fields == ({"type", "label", "confidence"} \cap DOMAIN updates)
                  \cup {"properties"}
                  \cup (IF withSession THEN {"sourceSessionIds"} ELSE {})
  IN  [f \in fields |->
         CASE f = "properties" ->
                JSONStringifyObject(
                  UpdatedProperties(existingNode.properties, updates, mergeProperties))
           [] f = "sourceSessionIds" ->
                JSONStringifyArray(Append(existingSessionIds, updates.sourceSessionId))
           [] OTHER -> updates[f]]

updateNode(nodeId, updates, mergeProperties) ==
  /\ LET existing == AdapterGetNode(nodes, nodeId)
     IN  IF existing = <<>>
           THEN /\ last' = [op |-> "updateNode",
                            arg |-> [nodeId |-> nodeId, updates |-> updates,
                                     mergeProperties |-> mergeProperties],
                            result |-> <<>>]
                /\ UNCHANGED <<nodes, searchIndex>>
           ELSE LET tbl     == AdapterUpdateNode(nodes, nodeId,
                                 NodeUpdates(existing[1], updates, mergeProperties))
                    updated == AdapterGetNode(tbl, nodeId)[1]
                IN  /\ nodes' = tbl
                    /\ searchIndex' =
                         indexNodeForSearch(AdapterDeleteSearchIndex(searchIndex, nodeId), updated)
                    /\ last' = [op |-> "updateNode",
                                arg |-> [nodeId |-> nodeId, updates |-> updates,
                                         mergeProperties |-> mergeProperties],
                                result |-> <<normalizeNode(updated)>>]
  /\ returned' = [i \in DOMAIN returned \ {nodeId} |-> returned[i]]
  /\ initialized' = TRUE
  /\ UNCHANGED <<edges, nodeIndex, edgeIndex>>

deleteNode(nodeId) ==
  /\ nodes' = AdapterDeleteNodeRows(nodes, nodeId)
  /\ edges' = AdapterCascadeEdges(edges, nodeId)
  /\ nodeIndex' = AdapterCascadeNodeIndex(nodeIndex, nodeId)
  /\ edgeIndex' = AdapterCascadeEdgeIndex(edgeIndex, CascadedEdgeIds(edges, nodeId))
  /\ searchIndex' = AdapterCascadeSearchIndex(searchIndex, nodeId)
  /\ last' = [op |-> "deleteNode", arg |-> nodeId,
              result |-> (Len(AdapterDeleteNodeRows(nodes, nodeId)) < Len(nodes)),
              cascaded |-> CascadedEdgeIds(edges, nodeId)]
  /\ returned' = [i \in DOMAIN returned \ {nodeId} |-> returned[i]]
  /\ initialized' = TRUE

getNode(nodeId) ==
  /\ LET node == AdapterGetNode(nodes, nodeId)
     IN  last' = [op |-> "getNode", arg |-> nodeId,
                  result |-> IF node = <<>> THEN <<>> ELSE <<normalizeNode(node[1])>>]
  /\ initialized' = TRUE
  /\ UNCHANGED <<nodes, edges, nodeIndex, edgeIndex, searchIndex, returned>>

\* the row addEdge hands to insertEdge
NewEdgeRow(id, options) ==
  LET base == [id |-> id, type |-> options.type,
               fromNodeId |-> options.fromNodeId, toNodeId |-> options.toNodeId,
               properties |-> JSONStringifyObject(PropertiesOrEmpty(options)),
               confidence |-> ConfidenceOrDefault(options)]
  IN  IF Has(options, "sourceSessionId")
        THEN [f \in DOMAIN base \cup {"sourceSessionIds"} |->
                IF f = "sourceSessionIds"
                  THEN JSONStringifyArray(<<options.sourceSessionId>>)
                  ELSE base[f]]
        ELSE base

\* the three rows addEdge adds to kg_edge_indices
EdgeIndexRows(id, options) ==
  { [indexKey |-> EdgeFromKey(options.fromNodeId, options.type), edgeId |-> id],
    [indexKey |-> EdgeToKey(options.toNodeId, options.type), edgeId |-> id],
    [indexKey |-> EdgeTypeKey(options.type), edgeId |-> id] }

IsBidirectional(options) == Has(options, "bidirectional") /\ options.bidirectional

\* the ids one addEdge call draws
EdgeIdsNeeded(options) == IF IsBidirectional(options) THEN 2 ELSE 1

\* mutant: only the source node is looked up
EndpointErrorFromOnly(options) ==
  IF AdapterGetNode(nodes, options.fromNodeId) = <<>>
    THEN <<"From node does not exist">>
    ELSE <<>>

\* the check at the head of addEdge: the message thrown, or <<>>
EndpointError(options) ==
  IF AdapterGetNode(nodes, options.fromNodeId) = <<>>
    THEN <<"From node does not exist">>
  ELSE IF AdapterGetNode(nodes, options.toNodeId) = <<>>
    THEN <<"To node does not exist">>
  ELSE <<>>

\* mutant: the second call keeps the endpoints as they are
ReverseOptionsUnswapped(options) == [options EXCEPT !.bidirectional = FALSE]

\* the options of the second call of a bidirectional addEdge
ReverseOptions(options) ==
  [options EXCEPT !.fromNodeId = options.toNodeId,
                  !.toNodeId = options.fromNodeId,
                  !.bidirectional = FALSE]

RECURSIVE addEdgeCall(_, _, _, _)
\* one addEdge call on the tables (tbl, idx): the tables it leaves and what it
\* returns ([edge |-> e]) or throws ([error |-> message])
addEdgeCall(tbl, idx, options, pool) ==
  IF EndpointError(options) # <<>>
    THEN [edges |-> tbl, edgeIndex |-> idx, result |-> [error |-> EndpointError(options)[1]]]
  ELSE
    LET id   == FreshEdgeId(tbl, pool)
        row  == NewEdgeRow(id, options)
        tbl1 == AdapterInsertEdge(tbl, row)
        idx1 == idx \cup EdgeIndexRows(id, options)
        back == addEdgeCall(tbl1, idx1, ReverseOptions(options), pool)
    IN  IF IsBidirectional(options)
          THEN IF Has(back.result, "error")
                 THEN back
                 ELSE [edges |-> back.edges, edgeIndex |-> back.edgeIndex,
                       result |-> [edge |-> normalizeEdge(deserializeEdge(row))]]
          ELSE [edges |-> tbl1, edgeIndex |-> idx1,
                result |-> [edge |-> normalizeEdge(deserializeEdge(row))]]

addEdge(options, pool) ==
  /\ EndpointError(options) = <<>> => Len(edges) + EdgeIdsNeeded(options) <= pool
  /\ LET call == addEdgeCall(edges, edgeIndex, options, pool)
     IN  /\ edges' = call.edges
         /\ edgeIndex' = call.edgeIndex
         /\ last' = [op |-> "addEdge", arg |-> options, result |-> call.result]
  /\ initialized' = TRUE
  /\ UNCHANGED <<nodes, nodeIndex, searchIndex, returned>>

\* what getEdgesBetween returns on the edge table tbl
getEdgesBetween(tbl, fromNodeId, toNodeId, edgeType) ==
  LET conditions == IF edgeType = <<>>
                      THEN [fromNodeId |-> fromNodeId, toNodeId |-> toNodeId]
                      ELSE [fromNodeId |-> fromNodeId, toNodeId |-> toNodeId,
                            type |-> edgeType[1]]
      found == AdapterQueryEdgesWhere(tbl, conditions)
  IN  [i \in 1..Len(found) |-> normalizeEdge(found[i])]

deleteEdge(edgeId) ==
  /\ edges' = AdapterDeleteEdgeRows(edges, edgeId)
  /\ edgeIndex' = AdapterCascadeEdgeIndex(edgeIndex, {edgeId})
  /\ last' = [op |-> "deleteEdge", arg |-> edgeId, result |-> TRUE]
  /\ initialized' = TRUE
  /\ UNCHANGED <<nodes, nodeIndex, searchIndex, returned>>

(***************************************************************************)
(* Inputs of the store specification.                                      *)
(***************************************************************************)
NodeIds == {NodeIdOf(i) : i \in 1..MaxNodes}
EdgeIds == {EdgeIdOf(i) : i \in 1..MaxEdges}

TextAdaB == <<"A", "d", "a", " ", "B">>
TextC == <<" ", "c">>
TextQ == <<"Q">>

StringValue(text) == [t |-> "string", v |-> text]
NumberValue(n) == [t |-> "number", v |-> n]

NodeOptionsSet ==
  { [type |-> "PERSON", label |-> TextAdaB],
    [type |-> "PLACE", label |-> TextC,
     properties |-> <<<<"bio", StringValue(TextQ)>>, <<"age", NumberValue(7)>>>>,
     confidence |-> 0, sourceSessionId |-> "s1"],
    [type |-> "PERSON", label |-> TextAdaB, confidence |-> 50] }

NodeUpdatesSet ==
  { [type |-> "PLACE", sourceSessionId |-> "s1"],
    [label |-> TextC, properties |-> <<<<"bio", StringValue(TextAdaB)>>>>] }

PlainNodeOptionsSet == { [type |-> "PERSON", label |-> TextQ] }

EdgeTypes == {"KNOWS", "LIKES"}

EdgeOptionsSet ==
  { [type |-> t, fromNodeId |-> f, toNodeId |-> g] :
      t \in EdgeTypes, f \in NodeIds, g \in NodeIds }
  \cup
  { [type |-> "KNOWS", fromNodeId |-> f, toNodeId |-> g, bidirectional |-> TRUE,
     confidence |-> 0] : f \in NodeIds, g \in NodeIds }

\* the store: nodes, edges and the cascade
Next ==
  \/ \E options \in PlainNodeOptionsSet : addNode(options, MaxNodes)
  \/ \E nodeId \in NodeIds : deleteNode(nodeId)
  \/ \E options \in EdgeOptionsSet : addEdge(options, MaxEdges)
  \/ \E edgeId \in EdgeIds : deleteEdge(edgeId)

Spec == Init /\ [][Next]_vars

(***************************************************************************)
(* The node specification: nodes with all their fields, their updates and  *)
(* the node and search indices, next to one kind of edge.                  *)
(***************************************************************************)
MaxNodeEdges == 1    \* edge ids available to the node specification

NodeEdgeOptionsSet ==
  { [type |-> "KNOWS", fromNodeId |-> f, toNodeId |-> g] : f \in NodeIds, g \in NodeIds }

NextNode ==
  \/ \E options \in NodeOptionsSet : addNode(options, MaxNodes)
  \/ \E nodeId \in NodeIds, updates \in NodeUpdatesSet, mergeProperties \in BOOLEAN :
       updateNode(nodeId, updates, mergeProperties)
  \/ \E nodeId \in NodeIds : deleteNode(nodeId)
  \/ \E nodeId \in NodeIds : getNode(nodeId)
  \/ \E options \in NodeEdgeOptionsSet : addEdge(options, MaxNodeEdges)
  \/ \E edgeId \in {EdgeIdOf(i) : i \in 1..MaxNodeEdges} : deleteEdge(edgeId)

SpecNode == Init /\ [][NextNode]_vars

(***************************************************************************)
(* Traversal: queryRelated with traverseGraph, and findShortestPath.       *)
(***************************************************************************)
\* a Map keeps a key at the place of its first set
MapSet(keys, k) == IF k \in Range(keys) THEN keys ELSE Append(keys, k)

\* edgeTypes && !edgeTypes.includes(type)
TypeExcluded(options, type) ==
  Has(options, "edgeTypes") /\ type \notin Range(options.edgeTypes)

\* the edges one traverseGraph call looks at: outgoing first, then incoming
DirectedEdges(nodeId, direction) ==
  (IF direction \in {"out", "both"} THEN AdapterQueryEdges(edges, "fromNodeId", nodeId) ELSE <<>>)
  \o (IF direction \in {"in", "both"} THEN AdapterQueryEdges(edges, "toNodeId", nodeId) ELSE <<>>)

RECURSIVE traverseGraph(_, _, _, _, _, _)
RECURSIVE TraverseEdges(_, _, _, _, _, _, _, _)

\* the for loop of traverseGraph from the k-th edge of list on; visited is
\* [nodes, edges], the keys of visitedNodes and visitedEdges in Map order
TraverseEdges(list, k, nodeId, depth, direction, options, visited, currentDepth) ==
  IF k > Len(list) THEN visited
  ELSE
    LET edge       == list[k]
        nextNodeId == IF edge.fromNodeId = nodeId THEN edge.toNodeId ELSE edge.fromNodeId
        withEdge   == [visited EXCEPT !.edges = MapSet(@, edge.id)]
        withNode   == [withEdge EXCEPT !.nodes = Append(@, nextNodeId)]
    IN  IF TypeExcluded(options, edge.type)
          THEN TraverseEdges(list, k + 1, nodeId, depth, direction, options, visited,
                             currentDepth)
        ELSE IF nextNodeId \notin Range(withEdge.nodes)
                  /\ AdapterGetNode(nodes, nextNodeId) # <<>>
          THEN TraverseEdges(list, k + 1, nodeId, depth, direction, options,
                             traverseGraph(nextNodeId, depth, direction, options, withNode,
                                           currentDepth + 1),
                             currentDepth)
        ELSE TraverseEdges(list, k + 1, nodeId, depth, direction, options, withEdge,
                           currentDepth)

traverseGraph(nodeId, depth, direction, options, visited, currentDepth) ==
  IF currentDepth >= depth THEN visited
  ELSE TraverseEdges(DirectedEdges(nodeId, direction), 1, nodeId, depth, direction,
                     options, visited, currentDepth)

\* options?.depth || 1: undefined and 0 are falsy
DepthOrDefault(options) ==
  IF Has(options, "depth") /\ options.depth # 0 THEN options.depth ELSE DefaultDepth

DirectionOrDefault(options) ==
  IF Has(options, "direction") THEN options.direction ELSE "both"

\* Math.min(1, (nodeCount + edgeCount) / 10), in hundredths
calculateRelevance(nodeCount, edgeCount) ==
  IF (nodeCount + edgeCount) * 10 < 100 THEN (nodeCount + edgeCount) * 10 ELSE 100

queryRelatedResult(nodeId, options) ==
  IF AdapterGetNode(nodes, nodeId) = <<>>
    THEN [nodes |-> <<>>, edges |-> <<>>, relevanceScore |-> 0]
    ELSE
      LET visited == traverseGraph(nodeId, DepthOrDefault(options),
                                   DirectionOrDefault(options), options,
                                   [nodes |-> <<nodeId>>, edges |-> <<>>], 0)
      IN  [nodes |-> [i \in 1..Len(visited.nodes) |->
                        normalizeNode(AdapterGetNode(nodes, visited.nodes[i])[1])],
           edges |-> [i \in 1..Len(visited.edges) |->
                        normalizeEdge(AdapterGetEdges(edges, <<visited.edges[i]>>)[1])],
           relevanceScore |-> calculateRelevance(Len(visited.nodes), Len(visited.edges))]

queryRelated(nodeId, options) ==
  /\ last' = [op |-> "queryRelated", arg |-> [nodeId |-> nodeId, options |-> options],
              result |-> queryRelatedResult(nodeId, options)]
  /\ initialized' = TRUE
  /\ UNCHANGED <<nodes, edges, nodeIndex, edgeIndex, searchIndex, returned>>

RECURSIVE PushNext(_, _, _, _, _, _)
\* the for loop of findShortestPath from the k-th outgoing edge on: the queue
\* with the entries it pushes
PushNext(outEdges, k, entry, options, visited, queue) ==
  IF k > Len(outEdges) THEN queue
  ELSE
    LET edge == outEdges[k]
    IN  IF TypeExcluded(options, edge.type) \/ edge.toNodeId \in visited
          THEN PushNext(outEdges, k + 1, entry, options, visited, queue)
          ELSE PushNext(outEdges, k + 1, entry, options, visited,
                        Append(queue, [nodeId |-> edge.toNodeId,
                                       path |-> Append(entry.path, edge.toNodeId),
                                       edges |-> Append(entry.edges, edge.id)]))

\* mutant: queue.pop() in place of queue.shift()
QueuePop(queue) ==
  [entry |-> queue[Len(queue)], rest |-> SubSeq(queue, 1, Len(queue) - 1)]

\* queue.shift(): the entry taken and the queue left
QueueShift(queue) == [entry |-> Head(queue), rest |-> Tail(queue)]

RECURSIVE ShortestPathLoop(_, _, _, _)
\* the while loop of findShortestPath: <<path>> or <<>> for null
ShortestPathLoop(queue, visited, toNodeId, options) ==
  IF queue = <<>> THEN <<>>
  ELSE
    LET entry == QueueShift(queue).entry
        rest  == QueueShift(queue).rest
    IN  IF entry.nodeId = toNodeId
          THEN LET pathNodes == AdapterGetNodes(nodes, entry.path)
                   pathEdges == AdapterGetEdges(edges, entry.edges)
               IN  << [nodes |-> [i \in 1..Len(pathNodes) |-> normalizeNode(pathNodes[i])],
                       edges |-> [i \in 1..Len(pathEdges) |-> normalizeEdge(pathEdges[i])],
                       length |-> Len(entry.path) - 1] >>
        ELSE IF entry.nodeId \in visited
          THEN ShortestPathLoop(rest, visited, toNodeId, options)
        ELSE ShortestPathLoop(
               PushNext(AdapterQueryEdges(edges, "fromNodeId", entry.nodeId), 1, entry,
                        options, visited \cup {entry.nodeId}, rest),
               visited \cup {entry.nodeId}, toNodeId, options)

findShortestPathResult(fromNodeId, toNodeId, options) ==
  ShortestPathLoop(<<[nodeId |-> fromNodeId, path |-> <<fromNodeId>>, edges |-> <<>>]>>,
                   {}, toNodeId, options)

findShortestPath(fromNodeId, toNodeId, options) ==
  /\ last' = [op |-> "findShortestPath",
              arg |-> [fromNodeId |-> fromNodeId, toNodeId |-> toNodeId, options |-> options],
              result |-> findShortestPathResult(fromNodeId, toNodeId, options)]
  /\ initialized' = TRUE
  /\ UNCHANGED <<nodes, edges, nodeIndex, edgeIndex, searchIndex, returned>>

(***************************************************************************)
(* The path specification: graphs of plain nodes with edges of two types   *)
(* in every direction, and shortest-path queries on them.                  *)
(***************************************************************************)
MaxPathNodes == 3    \* node ids available to the path specification
MaxPathEdges == 3    \* edge ids available to the path specification

PathNodeIds == {NodeIdOf(i) : i \in 1..MaxPathNodes}

PathEdgeOptionsSet ==
  { [type |-> t, fromNodeId |-> f, toNodeId |-> g] :
      t \in EdgeTypes, f \in PathNodeIds, g \in PathNodeIds }

PathOptionsSet == { <<>>, [edgeTypes |-> <<"KNOWS">>] }

NextPath ==
  \/ \E options \in PlainNodeOptionsSet : addNode(options, MaxPathNodes)
  \/ \E options \in PathEdgeOptionsSet : addEdge(options, MaxPathEdges)
  \/ \E fromNodeId \in PathNodeIds, toNodeId \in PathNodeIds, options \in PathOptionsSet :
       findShortestPath(fromNodeId, toNodeId, options)

SpecPath == Init /\ [][NextPath]_vars

(***************************************************************************)
(* The neighbourhood specification: graphs of plain nodes whose edges run  *)
(* from a node to a node created later, and queryRelated on them.          *)
(***************************************************************************)
MaxRelatedNodes == 4    \* node ids available to the neighbourhood specification
MaxRelatedEdges == 4    \* edge ids available to the neighbourhood specification
MaxDepth == 2           \* largest depth asked of queryRelated

RelatedNodeIds == {NodeIdOf(i) : i \in 1..MaxRelatedNodes}

RelatedEdgeOptionsSet ==
  { [type |-> "KNOWS", fromNodeId |-> NodeIdOf(p[1]), toNodeId |-> NodeIdOf(p[2])] :
      p \in {q \in (1..MaxRelatedNodes) \X (1..MaxRelatedNodes) : q[1] < q[2]} }

RelatedOptionsSet ==
  { [depth |-> d, direction |-> dir] : d \in 0..MaxDepth, dir \in {"out", "both"} }
  \cup { [edgeTypes |-> <<"LIKES">>] }

NextRelated ==
  \/ \E options \in PlainNodeOptionsSet : addNode(options, MaxRelatedNodes)
  \/ \E options \in RelatedEdgeOptionsSet : addEdge(options, MaxRelatedEdges)
  \/ \E nodeId \in RelatedNodeIds, options \in RelatedOptionsSet :
       queryRelated(nodeId, options)

SpecRelated == Init /\ [][NextRelated]_vars

(***************************************************************************)
(* Search: SQLiteAdapter.searchNodes and KnowledgeGraph.search.            *)
(***************************************************************************)
DefaultSearchLimit == 50   \* options.limit || 50

\* term LIKE '%<piece>%'
Contains(text, piece) ==
  \E i \in 0..(Len(text) - Len(piece)) : SubSeq(text, i + 1, i + Len(piece)) = piece

\* SELECT ... FROM kg_search_index WHERE term LIKE ? LIMIT ?, in table order
AdapterSearchNodes(idx, term, limit) ==
  LET hit  == SelectSeq(idx, LAMBDA r : Contains(r.term, term))
      kept == IF Len(hit) <= limit THEN Len(hit) ELSE limit
  IN  SubSeq(hit, 1, kept)

\* x || d for the numbers of SearchOptions
LimitOrDefault(options) ==
  IF Has(options, "limit") /\ options.limit # 0 THEN options.limit ELSE DefaultSearchLimit

MinScoreOrDefault(options) ==
  IF Has(options, "minScore") THEN options.minScore ELSE 0

RECURSIVE AddScores(_, _, _)
\* the inner loop of search from the k-th result on; nodeScores is a Map, kept
\* as the sequence of its <<nodeId, score>> entries in insertion order
AddScores(results, k, nodeScores) ==
  IF k > Len(results) THEN nodeScores
  ELSE
    LET result == results[k]
        known  == \E i \in 1..Len(nodeScores) : nodeScores[i][1] = result.nodeId
    IN  AddScores(results, k + 1,
          IF known
            THEN [i \in 1..Len(nodeScores) |->
                    IF nodeScores[i][1] = result.nodeId
                      THEN <<nodeScores[i][1], nodeScores[i][2] + result.weight>>
                      ELSE nodeScores[i]]
            ELSE Append(nodeScores, <<result.nodeId, result.weight>>))

RECURSIVE ScoreTerms(_, _, _, _)
\* the outer loop of search from the k-th term on
ScoreTerms(searchTerms, k, limit, nodeScores) ==
  IF k > Len(searchTerms) THEN nodeScores
  ELSE ScoreTerms(searchTerms, k + 1, limit,
         AddScores(AdapterSearchNodes(searchIndex, searchTerms[k], limit), 1, nodeScores))

RECURSIVE SortByScoreDescending(_)
\* Array.prototype.sort((a, b) => b[1] - a[1]): stable, highest score first
SortByScoreDescending(entries) ==
  IF entries = <<>> THEN <<>>
  ELSE
    LET front == SortByScoreDescending(SubSeq(entries, 1, Len(entries) - 1))
        x     == entries[Len(entries)]
        ahead == SelectSeq(front, LAMBDA e : e[2] >= x[2])
        after == SelectSeq(front, LAMBDA e : e[2] < x[2])
    IN  ahead \o <<x>> \o after

\* filter, sort and slice of the score entries
QualifiedEntries(nodeScores, options) ==
  LET passed == SelectSeq(nodeScores, LAMBDA e : e[2] >= MinScoreOrDefault(options))
      sorted == SortByScoreDescending(passed)
      kept   == IF Len(sorted) <= LimitOrDefault(options)
                  THEN Len(sorted) ELSE LimitOrDefault(options)
  IN  SubSeq(sorted, 1, kept)

\* what search returns, with the score map it built
searchResult(options) ==
  LET searchTerms == SplitWhitespace(toLowerCase(options.query))
      nodeScores  == ScoreTerms(searchTerms, 1, LimitOrDefault(options), <<>>)
      qualified   == QualifiedEntries(nodeScores, options)
      qualifiedNodeIds == [i \in 1..Len(qualified) |-> qualified[i][1]]
      found       == AdapterGetNodes(nodes, qualifiedNodeIds)
      filtered    == IF Has(options, "nodeTypes")
                       THEN SelectSeq(found, LAMBDA n : n.type \in Range(options.nodeTypes))
                       ELSE found
  IN  [scores |-> [id \in {nodeScores[i][1] : i \in 1..Len(nodeScores)} |->
                     nodeScores[CHOOSE i \in 1..Len(nodeScores) : nodeScores[i][1] = id][2]],
       result |->
         IF qualifiedNodeIds = <<>>
           THEN [nodes |-> <<>>, edges |-> <<>>, relevanceScore |-> 0]
           ELSE [nodes |-> [i \in 1..Len(filtered) |-> normalizeNode(filtered[i])],
                 edges |-> <<>>,
                 relevanceScore |-> qualified[1][2]]]

search(options) ==
  /\ last' = [op |-> "search", arg |-> options,
              result |-> searchResult(options).result,
              scores |-> searchResult(options).scores]
  /\ initialized' = TRUE
  /\ UNCHANGED <<nodes, edges, nodeIndex, edgeIndex, searchIndex, returned>>

(***************************************************************************)
(* The search specification: nodes of two types with one-word and two-word *)
(* labels, and text searches over them.                                    *)
(***************************************************************************)
MaxSearchNodes == 3    \* node ids available to the search specification
MaxSearchLimit == 2    \* the largest limit a search supplies

SearchNodeIds == {NodeIdOf(i) : i \in 1..MaxSearchNodes}

TextB == <<"B">>
TextBAda == <<"B", " ", "A", "d", "a">>

SearchNodeOptionsSet ==
  { [type |-> "PERSON", label |-> TextB],
    [type |-> "PLACE", label |-> TextAdaB],
    [type |-> "PERSON", label |-> TextQ] }

\* the record r with the field f set to v
WithField(r, f, v) == [k \in DOMAIN r \cup {f} |-> IF k = f THEN v ELSE r[k]]

\* the records of S, each also with the optional field f set to a value of V
WithOptional(S, f, V) == S \cup {WithField(r, f, v) : r \in S, v \in V}

SearchOptionsSet ==
  WithOptional(
    WithOptional(
      WithOptional({ [query |-> q] : q \in {TextAdaB, TextBAda, TextC, TextQ} },
                   "minScore", {SearchWeight, 2 * SearchWeight}),
      "limit", 1..MaxSearchLimit),
    "nodeTypes", {<<"PERSON">>})

NextSearch ==
  \/ \E options \in SearchNodeOptionsSet : addNode(options, MaxSearchNodes)
  \/ \E nodeId \in SearchNodeIds : deleteNode(nodeId)
  \/ \E options \in SearchOptionsSet : search(options)

SpecSearch == Init /\ [][NextSearch]_vars

(***************************************************************************)
(* The update specification: nodes with and without properties, and        *)
(* updates of their properties, merging and replacing.                     *)
(***************************************************************************)
MaxUpdateNodes == 2    \* node ids available to the update specification

UpdateNodeIds == {NodeIdOf(i) : i \in 1..MaxUpdateNodes}

UpdateNodeOptionsSet ==
  { [type |-> "PERSON", label |-> TextQ],
    [type |-> "PLACE", label |-> TextC,
     properties |-> <<<<"bio", StringValue(TextQ)>>, <<"age", NumberValue(7)>>>>] }

PropertyUpdatesSet ==
  { [properties |-> <<<<"bio", StringValue(TextAdaB)>>>>],
    [properties |-> <<<<"city", StringValue(TextC)>>>>],
    [properties |-> EmptyObject] }

NextUpdate ==
  \/ \E options \in UpdateNodeOptionsSet : addNode(options, MaxUpdateNodes)
  \/ \E nodeId \in UpdateNodeIds, updates \in PropertyUpdatesSet, mergeProperties \in BOOLEAN :
       updateNode(nodeId, updates, mergeProperties)

SpecUpdate == Init /\ [][NextUpdate]_vars

(***************************************************************************)
(* Batch operations: batchAddNodes and batchAddEdges.                      *)
(***************************************************************************)
\* kg_nodes.label is TEXT NOT NULL: insertNode raises on a request without one
InsertNodeError(options) ==
  IF Has(options, "label") THEN <<>> ELSE <<"NOT NULL constraint failed: kg_nodes.label">>

\* one addNode call on the tables st = [nodes, searchIndex, nodeIndex]: the
\* tables it leaves and what it returns ([node |-> n]) or throws
\* ([error |-> message])
addNodeCall(st, options, pool) ==
  IF InsertNodeError(options) # <<>>
    THEN [st |-> st, result |-> [error |-> InsertNodeError(options)[1]]]
  ELSE
    LET id   == FreshNodeId(st.nodes, pool)
        row  == NewNodeRow(id, options)
        node == deserializeNode(row)
    IN  [st |-> [nodes |-> AdapterInsertNode(st.nodes, row),
                 searchIndex |-> indexNodeForSearch(st.searchIndex, node),
                 nodeIndex |-> st.nodeIndex
                                 \cup {[indexKey |-> NodeTypeKey(node.type), nodeId |-> node.id]}],
         result |-> [node |-> normalizeNode(node)]]

\* mutant: the loop ends at the first request that raises
BatchStopsAtError(items, k, failed) == IF failed THEN Len(items) + 1 ELSE k + 1

\* the request the for loop of a batch turns to after the k-th
BatchNextItem(items, k, failed) == k + 1

RECURSIVE BatchNodesLoop(_, _, _, _, _, _)
\* the for loop of batchAddNodes from the k-th request on
BatchNodesLoop(items, k, st, successful, errors, pool) ==
  IF k > Len(items) THEN [st |-> st, successful |-> successful, errors |-> errors]
  ELSE
    LET call == addNodeCall(st, items[k], pool)
    IN  IF Has(call.result, "error")
          THEN BatchNodesLoop(items, BatchNextItem(items, k, TRUE), call.st, successful,
                              Append(errors, [item |-> items[k], error |-> call.result.error]),
                              pool)
          ELSE BatchNodesLoop(items, BatchNextItem(items, k, FALSE), call.st,
                              Append(successful, call.result.node.id), errors, pool)

\* mutant: a request that raises undoes the edges the batch has stored
EdgesRolledBack(tbl) == edges

\* the edge table after the catch block of batchAddEdges: nothing is undone
EdgesAfterError(tbl) == tbl

RECURSIVE BatchEdgesLoop(_, _, _, _, _, _, _)
\* the for loop of batchAddEdges from the k-th request on
BatchEdgesLoop(items, k, tbl, idx, successful, errors, pool) ==
  IF k > Len(items)
    THEN [edges |-> tbl, edgeIndex |-> idx, successful |-> successful, errors |-> errors]
  ELSE
    LET call == addEdgeCall(tbl, idx, items[k], pool)
    IN  IF Has(call.result, "error")
          THEN BatchEdgesLoop(items, BatchNextItem(items, k, TRUE),
                              EdgesAfterError(call.edges), call.edgeIndex, successful,
                              Append(errors, [item |-> items[k], error |-> call.result.error]),
                              pool)
          ELSE BatchEdgesLoop(items, BatchNextItem(items, k, FALSE), call.edges,
                              call.edgeIndex, Append(successful, call.result.edge.id),
                              errors, pool)

\* the BatchResult: errors is left out (undefined) when nothing failed
BatchResult(successful, errors) ==
  IF errors = <<>>
    THEN [successful |-> Len(successful), failed |-> 0]
    ELSE [successful |-> Len(successful), failed |-> Len(errors), errors |-> errors]

batchAddNodes(items, pool) ==
  /\ Len(nodes) + Len(SelectSeq(items, LAMBDA o : InsertNodeError(o) = <<>>)) <= pool
  /\ LET run == BatchNodesLoop(items, 1,
                  [nodes |-> nodes, searchIndex |-> searchIndex, nodeIndex |-> nodeIndex],
                  <<>>, <<>>, pool)
     IN  /\ nodes' = run.st.nodes
         /\ searchIndex' = run.st.searchIndex
         /\ nodeIndex' = run.st.nodeIndex
         /\ last' = [op |-> "batchAddNodes", arg |-> items,
                     result |-> BatchResult(run.successful, run.errors)]
         /\ returned' = [i \in DOMAIN returned \cup Range(run.successful) |->
                           IF i \in Range(run.successful)
                             THEN normalizeNode(AdapterGetNode(run.st.nodes, i)[1])
                             ELSE returned[i]]
  /\ initialized' = TRUE
  /\ UNCHANGED <<edges, edgeIndex>>

RECURSIVE BatchEdgeIdsNeeded(_)
BatchEdgeIdsNeeded(items) ==
  IF items = <<>> THEN 0
  ELSE (IF EndpointError(Head(items)) = <<>> THEN EdgeIdsNeeded(Head(items)) ELSE 0)
       + BatchEdgeIdsNeeded(Tail(items))

batchAddEdges(items, pool) ==
  /\ Len(edges) + BatchEdgeIdsNeeded(items) <= pool
  /\ LET run == BatchEdgesLoop(items, 1, edges, edgeIndex, <<>>, <<>>, pool)
     IN  /\ edges' = run.edges
         /\ edgeIndex' = run.edgeIndex
         /\ last' = [op |-> "batchAddEdges", arg |-> items,
                     result |-> BatchResult(run.successful, run.errors)]
  /\ initialized' = TRUE
  /\ UNCHANGED <<nodes, nodeIndex, searchIndex, returned>>

(***************************************************************************)
(* The batch specification: batches of node requests, some without a       *)
(* label, and batches of edge requests, some naming a node not stored.     *)
(***************************************************************************)
MaxBatchNodes == 2     \* node ids available to the batch specification
MaxBatchEdges == 3     \* edge ids available to the batch specification
MaxBatch == 3          \* the longest list of requests in one batch

BatchNodeIds == {NodeIdOf(i) : i \in 1..MaxBatchNodes}

BatchNodeOptionsSet == { [type |-> "PERSON", label |-> TextQ], [type |-> "PERSON"] }

BatchEdgeOptionsSet ==
  { [type |-> "KNOWS", fromNodeId |-> NodeIdOf(1), toNodeId |-> NodeIdOf(2)],
    [type |-> "KNOWS", fromNodeId |-> NodeIdOf(2), toNodeId |-> NodeIdOf(2)],
    [type |-> "LIKES", fromNodeId |-> NodeIdOf(1), toNodeId |-> NodeIdOf(1),
     bidirectional |-> TRUE] }

\* the lists of at most MaxBatch requests drawn from S
BatchesOf(S) == UNION {[1..n -> S] : n \in 0..MaxBatch}

NextBatch ==
  \/ \E items \in BatchesOf(BatchNodeOptionsSet) : batchAddNodes(items, MaxBatchNodes)
  \/ \E items \in BatchesOf(BatchEdgeOptionsSet) : batchAddEdges(items, MaxBatchEdges)
  \/ \E nodeId \in BatchNodeIds : deleteNode(nodeId)

SpecBatch == Init /\ [][NextBatch]_vars

(***************************************************************************)
(* Graph analytics: GraphAlgorithms.pageRank and findCliques.  A rank is   *)
(* an exact fraction [num, den] in lowest terms with den > 0; a damping    *)
(* factor is given in hundredths.                                          *)
(***************************************************************************)
PageRankNodeLimit == 10000   \* queryByType('CUSTOM', { limit: 10000 })
CliqueNodeLimit == 1000      \* queryByType('CUSTOM', { limit: 1000 })
DefaultQueryLimit == 100     \* options?.limit || 100

RECURSIVE GCD(_, _)
GCD(a, b) == IF b = 0 THEN a ELSE GCD(b, a % b)

Frac(n, d) ==
  LET g == GCD(IF n < 0 THEN -n ELSE n, d)
  IN  [num |-> n \div g, den |-> d \div g]

FracAdd(x, y) == Frac(x.num * y.den + y.num * x.den, x.den * y.den)
FracMul(x, y) == Frac(x.num * y.num, x.den * y.den)
FracDivInt(x, k) == Frac(x.num, x.den * k)

\* SELECT ... FROM kg_nodes WHERE type = ? LIMIT ?, in table order
AdapterQueryNodesByType(tbl, type, limit) ==
  LET hit  == SelectSeq(tbl, LAMBDA r : r.type = type)
      kept == IF Len(hit) <= limit THEN Len(hit) ELSE limit
  IN  [i \in 1..kept |-> deserializeNode(hit[i])]

\* the nodes of queryByType(nodeType, {limit})
queryByTypeNodes(nodeType, options) ==
  LET limit == IF Has(options, "limit") /\ options.limit # 0
                 THEN options.limit ELSE DefaultQueryLimit
      found == AdapterQueryNodesByType(nodes, nodeType, limit)
  IN  [i \in 1..Len(found) |-> normalizeNode(found[i])]

\* the ids the analytics work on: the nodes of type CUSTOM
AnalysedNodeIds(limit) ==
  LET found == queryByTypeNodes("CUSTOM", [limit |-> limit])
  IN  [i \in 1..Len(found) |-> found[i].id]

degreeCentrality(nodeId) == Len(queryRelatedResult(nodeId, [depth |-> 1]).edges)

RECURSIVE IncomingRank(_, _, _, _, _)
\* the loop over result.edges from the k-th edge on: the rank gathered
IncomingRank(resultEdges, k, nodeId, pageRankMap, damping) ==
  IF k > Len(resultEdges) THEN Frac(0, 1)
  ELSE
    LET edge == resultEdges[k]
        sourceRank == IF edge.fromNodeId \in DOMAIN pageRankMap
                        THEN pageRankMap[edge.fromNodeId] ELSE Frac(0, 1)
        sourceOutDegree == degreeCentrality(edge.fromNodeId)
        share == FracMul(Frac(damping, 100),
                         FracDivInt(sourceRank,
                                    IF sourceOutDegree > 1 THEN sourceOutDegree ELSE 1))
        rest == IncomingRank(resultEdges, k + 1, nodeId, pageRankMap, damping)
    IN  IF edge.toNodeId = nodeId THEN FracAdd(share, rest) ELSE rest

\* one iteration: the new rank of every node from the ranks before it
PageRankStep(pageRankMap, nodeIds, damping) ==
  [nodeId \in Range(nodeIds) |->
     FracAdd(Frac(100 - damping, 100 * Len(nodeIds)),
             IncomingRank(queryRelatedResult(nodeId, [depth |-> 1, direction |-> "in"]).edges,
                          1, nodeId, pageRankMap, damping))]

RECURSIVE PageRankLoop(_, _, _, _, _)
PageRankLoop(pageRankMap, nodeIds, damping, iter, iterations) ==
  IF iter >= iterations THEN pageRankMap
  ELSE PageRankLoop(PageRankStep(pageRankMap, nodeIds, damping), nodeIds, damping,
                    iter + 1, iterations)

pageRankResult(damping, iterations) ==
  LET nodeIds == AnalysedNodeIds(PageRankNodeLimit)
  IN  PageRankLoop([nodeId \in Range(nodeIds) |-> Frac(1, Len(nodeIds))],
                   nodeIds, damping, 0, iterations)

pageRank(damping, iterations) ==
  /\ last' = [op |-> "pageRank", arg |-> [damping |-> damping, iterations |-> iterations],
              result |-> pageRankResult(damping, iterations)]
  /\ initialized' = TRUE
  /\ UNCHANGED <<nodes, edges, nodeIndex, edgeIndex, searchIndex, returned>>

\* the ids of the nodes queryRelated(v, {depth: 1}) returns, v left out
CliqueNeighbors(v) ==
  LET found == queryRelatedResult(v, [depth |-> 1]).nodes
  IN  {found[i].id : i \in 1..Len(found)} \ {v}

RECURSIVE bronKerbosch(_, _, _, _)
RECURSIVE BronKerboschLoop(_, _, _, _)

\* the for loop over P from its first member on: P loses and X gains each
\* member once it is done; the cliques pushed, in order
BronKerboschLoop(R, P, X, minSize) ==
  IF P = <<>> THEN <<>>
  ELSE
    LET v         == Head(P)
        neighbors == CliqueNeighbors(v)
        newP      == SelectSeq(P, LAMBDA p : p \in neighbors)
        newX      == X \cap neighbors
    IN  bronKerbosch(R \cup {v}, newP, newX, minSize)
        \o BronKerboschLoop(R, Tail(P), X \cup {v}, minSize)

\* R and X are sets, P is a Set kept as the sequence of its members in order
bronKerbosch(R, P, X, minSize) ==
  IF P = <<>> /\ X = {}
    THEN IF Cardinality(R) >= minSize THEN <<R>> ELSE <<>>
    ELSE BronKerboschLoop(R, P, X, minSize)

findCliquesResult(minSize) ==
  bronKerbosch({}, AnalysedNodeIds(CliqueNodeLimit), {}, minSize)

findCliques(minSize) ==
  /\ last' = [op |-> "findCliques", arg |-> minSize, result |-> findCliquesResult(minSize)]
  /\ initialized' = TRUE
  /\ UNCHANGED <<nodes, edges, nodeIndex, edgeIndex, searchIndex, returned>>

(***************************************************************************)
(* The analytics specification: nodes of type CUSTOM and of another type,  *)
(* edges among them, and the analytics run on the graph.                   *)
(***************************************************************************)
MaxAnalyticsNodes == 3     \* node ids available to the analytics specification
MaxAnalyticsEdges == 3     \* edge ids available to the analytics specification
MaxIterations == 2         \* the largest iteration count given to pageRank
MaxMinSize == 3            \* the largest minSize given to findCliques

AnalyticsNodeOptionsSet ==
  { [type |-> "CUSTOM", label |-> TextQ], [type |-> "PERSON", label |-> TextQ] }

AnalyticsEdgeOptionsSet ==
  { [type |-> "KNOWS", fromNodeId |-> NodeIdOf(p[1]), toNodeId |-> NodeIdOf(p[2])] :
      p \in { q \in (1..MaxAnalyticsNodes) \X (1..MaxAnalyticsNodes) :
                q[2] = (q[1] % MaxAnalyticsNodes) + 1 \/ (q[1] = 2 /\ q[2] = 1) } }

DampingSet == {0, 85}

NextAnalytics ==
  \/ \E options \in AnalyticsNodeOptionsSet : addNode(options, MaxAnalyticsNodes)
  \/ \E options \in AnalyticsEdgeOptionsSet : addEdge(options, MaxAnalyticsEdges)
  \/ \E damping \in DampingSet, iterations \in 0..MaxIterations :
       pageRank(damping, iterations)
  \/ \E minSize \in 1..MaxMinSize : findCliques(minSize)

SpecAnalytics == Init /\ [][NextAnalytics]_vars

(***************************************************************************)
(* Index writes that fail.  The adapter raises out of the k-th index       *)
(* insert of a call (the store refuses the write); addNode and addEdge     *)
(* open no transaction, so what was written before stays.                  *)
(***************************************************************************)
\* addNode whose k-th index write raises: the search-index inserts come
\* first, one after the other, the type-index insert last
addNodeIndexWriteFails(options, pool, k) ==
  /\ Len(nodes) < pool
  /\ LET id      == FreshNodeId(nodes, pool)
         row     == NewNodeRow(id, options)
         node    == deserializeNode(row)
         written == indexNodeForSearch(<<>>, node)
     IN  /\ k \in 1..(Len(written) + 1)
         /\ nodes' = AdapterInsertNode(nodes, row)
         /\ searchIndex' = searchIndex \o SubSeq(written, 1, k - 1)
         /\ last' = [op |-> "addNode", arg |-> options,
                     result |-> [error |-> "index write failed"],
                     failedWrite |-> k, id |-> id]
  /\ initialized' = TRUE
  /\ UNCHANGED <<edges, nodeIndex, edgeIndex, returned>>

\* the index rows of addEdge in the order of its Promise.all
EdgeIndexWrites(id, options) ==
  << [indexKey |-> EdgeFromKey(options.fromNodeId, options.type), edgeId |-> id],
     [indexKey |-> EdgeToKey(options.toNodeId, options.type), edgeId |-> id],
     [indexKey |-> EdgeTypeKey(options.type), edgeId |-> id] >>

\* addEdge whose k-th index write raises: the three inserts of Promise.all
\* have all been started, so the other two are written
addEdgeIndexWriteFails(options, pool, k) ==
  /\ EndpointError(options) = <<>>
  /\ ~IsBidirectional(options)
  /\ Len(edges) < pool
  /\ LET id     == FreshEdgeId(edges, pool)
         row    == NewEdgeRow(id, options)
         writes == EdgeIndexWrites(id, options)
     IN  /\ k \in 1..Len(writes)
         /\ edges' = AdapterInsertEdge(edges, row)
         /\ edgeIndex' = edgeIndex \cup {writes[i] : i \in (1..Len(writes)) \ {k}}
         /\ last' = [op |-> "addEdge", arg |-> options,
                     result |-> [error |-> "index write failed"],
                     failedWrite |-> k, id |-> id]
  /\ initialized' = TRUE
  /\ UNCHANGED <<nodes, nodeIndex, searchIndex, returned>>

(***************************************************************************)
(* The fault specification: node and edge creation, with and without a     *)
(* failing index write.                                                    *)
(***************************************************************************)
MaxFaultNodes == 2     \* node ids available to the fault specification
MaxFaultEdges == 2     \* edge ids available to the fault specification
MaxIndexWrites == 3    \* the most index writes one call makes

FaultNodeOptionsSet ==
  { [type |-> "PERSON", label |-> TextQ], [type |-> "PLACE", label |-> TextAdaB] }

FaultEdgeOptionsSet ==
  { [type |-> "KNOWS", fromNodeId |-> f, toNodeId |-> g] :
      f \in {NodeIdOf(i) : i \in 1..MaxFaultNodes},
      g \in {NodeIdOf(i) : i \in 1..MaxFaultNodes} }

NextFault ==
  \/ \E options \in FaultNodeOptionsSet : addNode(options, MaxFaultNodes)
  \/ \E options \in FaultEdgeOptionsSet : addEdge(options, MaxFaultEdges)
  \/ \E options \in FaultNodeOptionsSet, k \in 1..MaxIndexWrites :
       addNodeIndexWriteFails(options, MaxFaultNodes, k)
  \/ \E options \in FaultEdgeOptionsSet, k \in 1..MaxIndexWrites :
       addEdgeIndexWriteFails(options, MaxFaultEdges, k)

SpecFault == Init /\ [][NextFault]_vars

(***************************************************************************)
(* Graph structure: GraphAlgorithms.findConnectedComponents.               *)
(***************************************************************************)
ComponentNodeLimit == 10000   \* queryByType('CUSTOM', { limit: 10000 })

RECURSIVE componentDfs(_, _)
RECURSIVE ComponentNeighbours(_, _, _, _)

\* the for loop of dfs over result.nodes from the k-th node on; st is
\* [visited, component], both Sets
ComponentNeighbours(resultNodes, k, nodeId, st) ==
  IF k > Len(resultNodes) THEN st
  ELSE ComponentNeighbours(resultNodes, k + 1, nodeId,
         IF resultNodes[k].id # nodeId /\ resultNodes[k].id \notin st.visited
           THEN componentDfs(resultNodes[k].id, st)
           ELSE st)

\* dfs(nodeId, component) of findConnectedComponents
componentDfs(nodeId, st) ==
  IF nodeId \in st.visited THEN st
  ELSE ComponentNeighbours(
         queryRelatedResult(nodeId, [depth |-> 1, direction |-> "both"]).nodes, 1, nodeId,
         [visited |-> st.visited \cup {nodeId}, component |-> st.component \cup {nodeId}])

RECURSIVE ComponentsLoop(_, _, _, _)
\* the loop over the nodes of the query from the k-th on: the components
\* pushed, in order
ComponentsLoop(nodeIds, k, visited, components) ==
  IF k > Len(nodeIds) THEN components
  ELSE IF nodeIds[k] \in visited THEN ComponentsLoop(nodeIds, k + 1, visited, components)
  ELSE LET st == componentDfs(nodeIds[k], [visited |-> visited, component |-> {}])
       IN  ComponentsLoop(nodeIds, k + 1, st.visited, Append(components, st.component))

findConnectedComponentsResult ==
  ComponentsLoop(AnalysedNodeIds(ComponentNodeLimit), 1, {}, <<>>)

findConnectedComponents ==
  /\ last' = [op |-> "findConnectedComponents", arg |-> <<>>,
              result |-> findConnectedComponentsResult]
  /\ initialized' = TRUE
  /\ UNCHANGED <<nodes, edges, nodeIndex, edgeIndex, searchIndex, returned>>

(***************************************************************************)
(* Graph structure: GraphAlgorithms.detectCycles.                          *)
(***************************************************************************)
CycleNodeLimit == 1000   \* queryByType('CUSTOM', { limit: 1000 })

\* Array.prototype.indexOf, counted from 1
IndexOf(s, x) == CHOOSE i \in 1..Len(s) : s[i] = x /\ \A j \in 1..(i - 1) : s[j] # x

RECURSIVE cycleDfs(_, _)
RECURSIVE CycleEdges(_, _, _, _)

\* the for loop of dfs over result.edges from the k-th edge on; st is
\* [visited, recursionStack, path, pathEdges, cycles]
CycleEdges(resultEdges, k, nodeId, st) ==
  IF k > Len(resultEdges) THEN st
  ELSE
    LET edge    == resultEdges[k]
        pushed  == [st EXCEPT !.pathEdges = Append(@, edge)]
        cycleStartIndex == IndexOf(pushed.path, edge.toNodeId)
        looked  == IF edge.toNodeId \notin pushed.visited
                     THEN cycleDfs(edge.toNodeId, pushed)
                   ELSE IF edge.toNodeId \in pushed.recursionStack
                     THEN [pushed EXCEPT !.cycles =
                             Append(@, [nodes |-> SubSeq(pushed.path, cycleStartIndex,
                                                         Len(pushed.path)),
                                        edges |-> SubSeq(pushed.pathEdges, cycleStartIndex,
                                                         Len(pushed.pathEdges))])]
                   ELSE pushed
        popped  == [looked EXCEPT !.pathEdges = SubSeq(@, 1, Len(@) - 1)]
    IN  IF edge.fromNodeId = nodeId
          THEN CycleEdges(resultEdges, k + 1, nodeId, popped)
          ELSE CycleEdges(resultEdges, k + 1, nodeId, st)

\* dfs(nodeId) of detectCycles; it always returns false
cycleDfs(nodeId, st) ==
  LET entered == [st EXCEPT !.visited = @ \cup {nodeId},
                            !.recursionStack = @ \cup {nodeId},
                            !.path = Append(@, nodeId)]
      done    == CycleEdges(queryRelatedResult(nodeId, [depth |-> 1, direction |-> "out"]).edges,
                            1, nodeId, entered)
  IN  [done EXCEPT !.path = SubSeq(@, 1, Len(@) - 1),
                   !.recursionStack = @ \ {nodeId}]

RECURSIVE CyclesLoop(_, _, _)
\* the loop over the nodes of the query from the k-th on
CyclesLoop(nodeIds, k, st) ==
  IF k > Len(nodeIds) THEN st
  ELSE CyclesLoop(nodeIds, k + 1,
                  IF nodeIds[k] \in st.visited THEN st ELSE cycleDfs(nodeIds[k], st))

detectCyclesResult ==
  CyclesLoop(AnalysedNodeIds(CycleNodeLimit), 1,
             [visited |-> {}, recursionStack |-> {}, path |-> <<>>, pathEdges |-> <<>>,
              cycles |-> <<>>]).cycles

detectCycles ==
  /\ last' = [op |-> "detectCycles", arg |-> <<>>, result |-> detectCyclesResult]
  /\ initialized' = TRUE
  /\ UNCHANGED <<nodes, edges, nodeIndex, edgeIndex, searchIndex, returned>>

(***************************************************************************)
(* Graph structure: GraphAlgorithms.clusteringCoefficient.  The quotient   *)
(* is kept as an exact fraction.                                           *)
(***************************************************************************)
RECURSIVE CountTriangles(_, _, _)
\* the two for loops from the pair (i, j) on: the pairs of neighbours for
\* which getEdgesBetween(neighborI.id, neighborJ.id) finds an edge
CountTriangles(neighbors, i, j) ==
  IF i > Len(neighbors) THEN 0
  ELSE IF j > Len(neighbors) THEN CountTriangles(neighbors, i + 1, i + 2)
  ELSE (IF Len(getEdgesBetween(edges, neighbors[i].id, neighbors[j].id, <<>>)) > 0
          THEN 1 ELSE 0)
       + CountTriangles(neighbors, i, j + 1)

clusteringCoefficientResult(nodeId) ==
  LET result    == queryRelatedResult(nodeId, [depth |-> 1])
      neighbors == SelectSeq(result.nodes, LAMBDA n : n.id # nodeId)
      possibleTriangles == (Len(neighbors) * (Len(neighbors) - 1)) \div 2
  IN  IF Len(neighbors) < 2 THEN Frac(0, 1)
      ELSE Frac(CountTriangles(neighbors, 1, 2), possibleTriangles)

clusteringCoefficient(nodeId) ==
  /\ last' = [op |-> "clusteringCoefficient", arg |-> nodeId,
              result |-> clusteringCoefficientResult(nodeId)]
  /\ initialized' = TRUE
  /\ UNCHANGED <<nodes, edges, nodeIndex, edgeIndex, searchIndex, returned>>

(***************************************************************************)
(* Graph structure: GraphAlgorithms.detectCommunities.  communities is a   *)
(* Map from node id to label, kept as a function; labelCounts is a Map     *)
(* kept as the sequence of its <<label, count>> entries in insertion order.*)
(***************************************************************************)
CommunityNodeLimit == 1000      \* queryByType('CUSTOM', { limit: 1000 })
CommunityMaxIterations == 10    \* const maxIterations = 10

RECURSIVE CountLabels(_, _, _, _, _)
\* the loop over result.nodes from the k-th node on
CountLabels(resultNodes, k, nodeId, communities, labelCounts) ==
  IF k > Len(resultNodes) THEN labelCounts
  ELSE
    LET neighbor == resultNodes[k]
        counted  == neighbor.id # nodeId /\ neighbor.id \in DOMAIN communities
        label    == communities[neighbor.id]
        known    == \E i \in 1..Len(labelCounts) : labelCounts[i][1] = label
    IN  CountLabels(resultNodes, k + 1, nodeId, communities,
          IF ~counted THEN labelCounts
          ELSE IF known
            THEN [i \in 1..Len(labelCounts) |->
                    IF labelCounts[i][1] = label
                      THEN <<label, labelCounts[i][2] + 1>> ELSE labelCounts[i]]
            ELSE Append(labelCounts, <<label, 1>>))

RECURSIVE MaxLabelFrom(_, _, _)
\* entries.reduce((a, b) => a[1] > b[1] ? a : b) from the k-th entry on
MaxLabelFrom(entries, k, a) ==
  IF k > Len(entries) THEN a
  ELSE MaxLabelFrom(entries, k + 1, IF a[2] > entries[k][2] THEN a ELSE entries[k])

RECURSIVE CommunityPass(_, _, _)
\* the for loop over nodes.nodes from the k-th node on; st is
\* [communities, changed], and communities is updated in place
CommunityPass(nodeIds, k, st) ==
  IF k > Len(nodeIds) THEN st
  ELSE
    LET nodeId      == nodeIds[k]
        result      == queryRelatedResult(nodeId, [depth |-> 1])
        labelCounts == CountLabels(result.nodes, 1, nodeId, st.communities, <<>>)
        maxLabel    == MaxLabelFrom(labelCounts, 2, labelCounts[1])[1]
    IN  CommunityPass(nodeIds, k + 1,
          IF Len(labelCounts) > 0 /\ st.communities[nodeId] # maxLabel
            THEN [communities |-> [st.communities EXCEPT ![nodeId] = maxLabel],
                  changed |-> TRUE]
            ELSE st)

RECURSIVE CommunityRounds(_, _, _, _, _)
\* the while loop; rounds records communities before the first round and
\* after every round
CommunityRounds(nodeIds, communities, changed, iterations, rounds) ==
  IF ~(changed /\ iterations < CommunityMaxIterations)
    THEN [communities |-> communities, rounds |-> rounds]
    ELSE LET st == CommunityPass(nodeIds, 1, [communities |-> communities, changed |-> FALSE])
         IN  CommunityRounds(nodeIds, st.communities, st.changed, iterations + 1,
                             Append(rounds, st.communities))

detectCommunitiesResult ==
  LET nodeIds == AnalysedNodeIds(CommunityNodeLimit)
      initial == [id \in Range(nodeIds) |-> (CHOOSE i \in 1..Len(nodeIds) : nodeIds[i] = id) - 1]
  IN  CommunityRounds(nodeIds, initial, TRUE, 0, <<initial>>)

detectCommunities ==
  /\ last' = [op |-> "detectCommunities", arg |-> <<>>,
              result |-> detectCommunitiesResult.communities,
              rounds |-> detectCommunitiesResult.rounds]
  /\ initialized' = TRUE
  /\ UNCHANGED <<nodes, edges, nodeIndex, edgeIndex, searchIndex, returned>>

(***************************************************************************)
(* The structure specification: nodes of type CUSTOM and of another type,  *)
(* edges among them with a self-loop, and the structure analyses.          *)
(***************************************************************************)
MaxStructureNodes == 3     \* node ids available to the structure specification
MaxStructureEdges == 3     \* edge ids available to the structure specification

StructureNodeIds == {NodeIdOf(i) : i \in 1..MaxStructureNodes}

StructureEdgeOptionsSet ==
  { [type |-> "KNOWS", fromNodeId |-> NodeIdOf(p[1]), toNodeId |-> NodeIdOf(p[2])] :
      p \in { q \in (1..MaxStructureNodes) \X (1..MaxStructureNodes) :
                \/ q[2] = (q[1] % MaxStructureNodes) + 1
                \/ (q[1] = 2 /\ q[2] = 1)
                \/ (q[1] = 1 /\ q[2] = 1) } }

NextStructure ==
  \/ \E options \in AnalyticsNodeOptionsSet : addNode(options, MaxStructureNodes)
  \/ \E options \in StructureEdgeOptionsSet : addEdge(options, MaxStructureEdges)
  \/ findConnectedComponents
  \/ detectCycles
  \/ \E nodeId \in StructureNodeIds : clusteringCoefficient(nodeId)
  \/ detectCommunities

SpecStructure == Init /\ [][NextStructure]_vars

(***************************************************************************)
(* Traversal: KnowledgeGraph.traverse.  The call is modelled one iteration *)
(* of its while loop at a time; its local variables live in the record     *)
(* last while pc = "loop".  nodeFilter and edgeFilter are never supplied.   *)
(***************************************************************************)
TraverseRelevance == 100   \* relevanceScore: 1.0

\* depth > (options.maxDepth || Infinity): undefined and 0 give Infinity
BeyondMaxDepth(options, depth) ==
  Has(options, "maxDepth") /\ options.maxDepth # 0 /\ depth > options.maxDepth

\* mutant: a node taken from the queue is expanded whether visited or not
SkipVisitedNever(options, visited, nodeId) == FALSE

\* visited.has(nodeId) && options.visitOnce !== false
SkipVisited(options, visited, nodeId) ==
  nodeId \in visited /\ ~(Has(options, "visitOnce") /\ options.visitOnce = FALSE)

\* the edges one iteration looks at; options.direction has no default
TraverseDirectedEdges(nodeId, options) ==
  LET direction == IF Has(options, "direction") THEN options.direction ELSE "undefined"
      outEdges  == AdapterQueryEdges(edges, "fromNodeId", nodeId)
      inEdges   == AdapterQueryEdges(edges, "toNodeId", nodeId)
      list      == (IF direction \in {"out", "both"} THEN outEdges ELSE <<>>)
                   \o (IF direction \in {"in", "both"} THEN inEdges ELSE <<>>)
  IN  [i \in 1..Len(list) |-> normalizeEdge(list[i])]

RECURSIVE TraversePush(_, _, _, _, _, _)
\* the for loop over the edges from the k-th on; st is [queue, visitedEdges]
TraversePush(list, k, nodeId, depth, options, st) ==
  IF k > Len(list) THEN st
  ELSE
    LET edge       == list[k]
        nextNodeId == IF edge.fromNodeId = nodeId THEN edge.toNodeId ELSE edge.fromNodeId
        allowed    == ~TypeExcluded(options, edge.type)
        again      == Has(options, "visitOnce") /\ options.visitOnce = FALSE
        \* visited here already holds nodeId
        push       == nextNodeId \notin st.visited \/ again
    IN  TraversePush(list, k + 1, nodeId, depth, options,
          IF ~allowed THEN st
          ELSE [st EXCEPT !.visitedEdges = MapSet(@, edge.id),
                          !.queue = IF push
                                      THEN Append(@, [nodeId |-> nextNodeId, depth |-> depth + 1])
                                      ELSE @])

\* traverse is called: the state before the first iteration
traverseCall(options) ==
  /\ last' = [op |-> "traverse", arg |-> options, pc |-> "loop",
              queue |-> <<[nodeId |-> options.startNodeId, depth |-> 0]>>,
              visited |-> {}, visitedNodes |-> <<>>, visitedEdges |-> <<>>,
              expanded |-> <<>>, result |-> <<>>]
  /\ initialized' = TRUE
  /\ UNCHANGED <<nodes, edges, nodeIndex, edgeIndex, searchIndex, returned>>

\* the value traverse returns once the queue is empty
traverseReturn(visitedNodes, visitedEdges) ==
  [nodes |-> [i \in 1..Len(visitedNodes) |->
                normalizeNode(AdapterGetNode(nodes, visitedNodes[i])[1])],
   edges |-> [i \in 1..Len(visitedEdges) |->
                normalizeEdge(AdapterGetEdges(edges, <<visitedEdges[i]>>)[1])],
   relevanceScore |-> TraverseRelevance]

\* one iteration of the while loop, or the return when the queue is empty
traverseStep ==
  /\ last.op = "traverse"
  /\ last.pc = "loop"
  /\ IF last.queue = <<>>
       THEN last' = [last EXCEPT !.pc = "done",
                                 !.result = traverseReturn(last.visitedNodes, last.visitedEdges)]
       ELSE
         LET nodeId  == Head(last.queue).nodeId
             depth   == Head(last.queue).depth
             rest    == Tail(last.queue)
             options == last.arg
             pushed  == TraversePush(TraverseDirectedEdges(nodeId, options), 1, nodeId, depth,
                                     options,
                                     [queue |-> rest, visitedEdges |-> last.visitedEdges,
                                      visited |-> last.visited \cup {nodeId}])
         IN  IF SkipVisited(options, last.visited, nodeId) \/ BeyondMaxDepth(options, depth)
               THEN last' = [last EXCEPT !.queue = rest]
             ELSE IF AdapterGetNode(nodes, nodeId) = <<>>
               THEN last' = [last EXCEPT !.queue = rest, !.visited = @ \cup {nodeId}]
             ELSE last' = [last EXCEPT !.queue = pushed.queue,
                                       !.visited = @ \cup {nodeId},
                                       !.visitedNodes = MapSet(@, nodeId),
                                       !.visitedEdges = pushed.visitedEdges,
                                       !.expanded = Append(@, nodeId)]
  /\ UNCHANGED <<nodes, edges, nodeIndex, edgeIndex, searchIndex, initialized, returned>>

\* no traverse call is under way
TraverseIdle == ~(last.op = "traverse" /\ last.pc = "loop")

(***************************************************************************)
(* The traversal specification: graphs of plain nodes with cycles and a    *)
(* self-loop, and traversals from every node.  The graph is not changed    *)
(* while a traversal runs.                                                 *)
(***************************************************************************)
MaxTraverseNodes == 3     \* node ids available to the traversal specification
MaxTraverseEdges == 3     \* edge ids available to the traversal specification
MaxTraverseDepth == 2     \* the largest maxDepth a traversal supplies

TraverseNodeIds == {NodeIdOf(i) : i \in 1..MaxTraverseNodes}

TraversalOptionsSet ==
  WithOptional(
    WithOptional({ [startNodeId |-> s] : s \in TraverseNodeIds },
                 "direction", {"out", "both"}),
    "maxDepth", 0..MaxTraverseDepth)
  \cup { [startNodeId |-> s, direction |-> "out", maxDepth |-> 1, visitOnce |-> FALSE] :
           s \in TraverseNodeIds }
  \cup { [startNodeId |-> s, direction |-> "in", edgeTypes |-> <<"KNOWS">>] :
           s \in TraverseNodeIds }

NextTraverse ==
  \/ TraverseIdle /\ \E options \in PlainNodeOptionsSet : addNode(options, MaxTraverseNodes)
  \/ TraverseIdle /\ \E options \in StructureEdgeOptionsSet :
                       addEdge(options, MaxTraverseEdges)
  \/ TraverseIdle /\ \E options \in TraversalOptionsSet : traverseCall(options)
  \/ traverseStep

SpecTraverse == Init /\ [][NextTraverse]_vars

\* a call that has started runs on: every iteration of the loop is taken
SpecTraverseLive == SpecTraverse /\ WF_vars(traverseStep)

(***************************************************************************)
(* Calls under way at the same time.  A call is run one segment at a time, *)
(* a segment being the code between two awaits; while calls are under way  *)
(* the record last holds them in its field calls, each with its position   *)
(* pc and its local variables, and counts the calls of adapter.initialize   *)
(* since construction or the last close.                                   *)
(***************************************************************************)
\* mutant: kg_edges without its REFERENCES kg_nodes(id) clauses
EdgeForeignKeysUnchecked(nodeTbl, row) == TRUE

\* kg_edges.from_node_id and to_node_id REFERENCES kg_nodes(id), with
\* PRAGMA foreign_keys = ON
EdgeForeignKeysHold(nodeTbl, row) ==
  /\ \E i \in 1..Len(nodeTbl) : nodeTbl[i].id = row.fromNodeId
  /\ \E i \in 1..Len(nodeTbl) : nodeTbl[i].id = row.toNodeId

\* kg_edge_indices.edge_id REFERENCES kg_edges(id)
EdgeIndexForeignKeyHolds(edgeTbl, indexRow) ==
  \E i \in 1..Len(edgeTbl) : edgeTbl[i].id = indexRow.edgeId

RECURSIVE InsertSearchRows(_, _, _)
\* the inserts of indexNodeForSearch from the k-th row on, up to the first
\* that breaks PRIMARY KEY (term, node_id, field): [idx, failed]
InsertSearchRows(idx, rows, k) ==
  IF k > Len(rows) THEN [idx |-> idx, failed |-> FALSE]
  ELSE IF \E i \in 1..Len(idx) :
            /\ idx[i].term = rows[k].term
            /\ idx[i].nodeId = rows[k].nodeId
            /\ idx[i].field = rows[k].field
    THEN [idx |-> idx, failed |-> TRUE]
  ELSE InsertSearchRows(Append(idx, rows[k]), rows, k + 1)

\* a call that has not started
NewCall(op, arg) == [op |-> op, arg |-> arg, pc |-> "start", local |-> <<>>, result |-> <<>>]

CallFinished(call) == call.pc \in {"done", "failed"}

\* no call is under way
CallsIdle == last.op = "calls" => \A c \in DOMAIN last.calls : CallFinished(last.calls[c])

\* the calls are handed to the graph; none has run yet
startCalls(batch, pool) ==
  /\ CallsIdle
  /\ Len(edges) + Len(SelectSeq(batch, LAMBDA call : call.op = "addEdge")) * 2 <= pool
  /\ last' = [op |-> "calls", arg |-> batch, calls |-> batch, result |-> <<>>,
              adapterInitializeCalls |->
                IF last.op = "calls" THEN last.adapterInitializeCalls
                ELSE IF initialized THEN 1 ELSE 0]
  /\ UNCHANGED <<nodes, edges, nodeIndex, edgeIndex, searchIndex, initialized, returned>>

\* the first segment of a call: ensureInitialized reads the flag and, when
\* it is not set, initialize calls adapter.initialize and awaits it
callStart(c) ==
  /\ last.op = "calls" /\ c \in DOMAIN last.calls
  /\ last.calls[c].pc = "start"
  /\ last.calls[c].op # "close"
  /\ last' = IF initialized
               THEN [last EXCEPT !.calls[c].pc = "body"]
               ELSE [last EXCEPT !.calls[c].pc = "initializing",
                                 !.adapterInitializeCalls = @ + 1]
  /\ UNCHANGED <<nodes, edges, nodeIndex, edgeIndex, searchIndex, initialized, returned>>

\* adapter.initialize has resolved: this.initialized = true
callInitialized(c) ==
  /\ last.op = "calls" /\ c \in DOMAIN last.calls
  /\ last.calls[c].pc = "initializing"
  /\ initialized' = TRUE
  /\ last' = [last EXCEPT !.calls[c].pc = "body"]
  /\ UNCHANGED <<nodes, edges, nodeIndex, edgeIndex, searchIndex, returned>>

\* deleteNode after ensureInitialized: the one DELETE statement
deleteNodeStep(c) ==
  /\ last.op = "calls" /\ c \in DOMAIN last.calls
  /\ last.calls[c].op = "deleteNode" /\ last.calls[c].pc = "body"
  /\ LET nodeId == last.calls[c].arg
     IN  /\ nodes' = AdapterDeleteNodeRows(nodes, nodeId)
         /\ edges' = AdapterCascadeEdges(edges, nodeId)
         /\ nodeIndex' = AdapterCascadeNodeIndex(nodeIndex, nodeId)
         /\ edgeIndex' = AdapterCascadeEdgeIndex(edgeIndex, CascadedEdgeIds(edges, nodeId))
         /\ searchIndex' = AdapterCascadeSearchIndex(searchIndex, nodeId)
         /\ returned' = [i \in DOMAIN returned \ {nodeId} |-> returned[i]]
         /\ last' = [last EXCEPT
                       !.calls[c].pc = "done",
                       !.calls[c].result =
                          (Len(AdapterDeleteNodeRows(nodes, nodeId)) < Len(nodes))]
  /\ UNCHANGED initialized

\* addEdge after ensureInitialized, segment by segment: the two getNode
\* reads, insertEdge, the three insertEdgeIndex writes, and the second call
\* of a bidirectional edge
addEdgeStep(c, pool) ==
  /\ last.op = "calls" /\ c \in DOMAIN last.calls
  /\ last.calls[c].op = "addEdge"
  /\ last.calls[c].pc \in {"body", "readTo", "insert", "index"}
  /\ LET call    == last.calls[c]
         options == IF Has(call.local, "options") THEN call.local.options ELSE call.arg
     IN  CASE call.pc = "body" ->
                /\ last' = [last EXCEPT
                     !.calls[c].pc = "readTo",
                     !.calls[c].local =
                        [options |-> options,
                         fromNode |-> AdapterGetNode(nodes, options.fromNodeId)]]
                /\ UNCHANGED <<edges, edgeIndex>>
           [] call.pc = "readTo" ->
                /\ last' =
                     IF call.local.fromNode = <<>>
                       THEN [last EXCEPT !.calls[c].pc = "failed",
                                         !.calls[c].result = "From node does not exist"]
                     ELSE IF AdapterGetNode(nodes, options.toNodeId) = <<>>
                       THEN [last EXCEPT !.calls[c].pc = "failed",
                                         !.calls[c].result = "To node does not exist"]
                     ELSE [last EXCEPT !.calls[c].pc = "insert"]
                /\ UNCHANGED <<edges, edgeIndex>>
           [] call.pc = "insert" ->
                LET id  == FreshEdgeId(edges, pool)
                    row == NewEdgeRow(id, options)
                IN  IF EdgeForeignKeysHold(nodes, row)
                      THEN /\ edges' = AdapterInsertEdge(edges, row)
                           /\ last' = [last EXCEPT
                                !.calls[c].pc = "index",
                                !.calls[c].local = [options |-> options, id |-> id, k |-> 1]]
                           /\ UNCHANGED edgeIndex
                      ELSE /\ last' = [last EXCEPT
                                !.calls[c].pc = "failed",
                                !.calls[c].result = "FOREIGN KEY constraint failed"]
                           /\ UNCHANGED <<edges, edgeIndex>>
           [] call.pc = "index" ->
                LET write == EdgeIndexWrites(call.local.id, options)[call.local.k]
                IN  IF ~EdgeIndexForeignKeyHolds(edges, write)
                      THEN /\ last' = [last EXCEPT
                                !.calls[c].pc = "failed",
                                !.calls[c].result = "FOREIGN KEY constraint failed"]
                           /\ UNCHANGED <<edges, edgeIndex>>
                      ELSE /\ edgeIndex' = edgeIndex \cup {write}
                           /\ UNCHANGED edges
                           /\ last' =
                                IF call.local.k < 3
                                  THEN [last EXCEPT !.calls[c].local.k = @ + 1]
                                ELSE IF IsBidirectional(options)
                                  THEN [last EXCEPT
                                          !.calls[c].pc = "start",
                                          !.calls[c].local =
                                             [options |-> ReverseOptions(options)]]
                                ELSE [last EXCEPT !.calls[c].pc = "done",
                                                  !.calls[c].result = call.local.id]
  /\ UNCHANGED <<nodes, nodeIndex, searchIndex, initialized, returned>>

\* updateNode after ensureInitialized, segment by segment: getNode, the
\* UPDATE, deleteSearchIndex and indexNodeForSearch
updateNodeStep(c) ==
  /\ last.op = "calls" /\ c \in DOMAIN last.calls
  /\ last.calls[c].op = "updateNode"
  /\ last.calls[c].pc \in {"body", "write", "unindex", "reindex"}
  /\ LET call   == last.calls[c]
         nodeId == call.arg.nodeId
     IN  CASE call.pc = "body" ->
                LET existing == AdapterGetNode(nodes, nodeId)
                IN  /\ last' = IF existing = <<>>
                                 THEN [last EXCEPT !.calls[c].pc = "done"]
                                 ELSE [last EXCEPT
                                         !.calls[c].pc = "write",
                                         !.calls[c].local = [existingNode |-> existing[1]]]
                    /\ UNCHANGED <<nodes, searchIndex, returned>>
           [] call.pc = "write" ->
                LET tbl == AdapterUpdateNode(nodes, nodeId,
                             NodeUpdates(call.local.existingNode, call.arg.updates,
                                         call.arg.mergeProperties))
                    updated == AdapterGetNode(tbl, nodeId)
                IN  /\ nodes' = tbl
                    /\ last' = IF updated = <<>>
                                 THEN [last EXCEPT !.calls[c].pc = "done"]
                                 ELSE [last EXCEPT
                                         !.calls[c].pc = "unindex",
                                         !.calls[c].local = [updatedNode |-> updated[1]]]
                    /\ returned' = [i \in DOMAIN returned \ {nodeId} |-> returned[i]]
                    /\ UNCHANGED searchIndex
           [] call.pc = "unindex" ->
                /\ searchIndex' = AdapterDeleteSearchIndex(searchIndex, nodeId)
                /\ last' = [last EXCEPT !.calls[c].pc = "reindex"]
                /\ UNCHANGED <<nodes, returned>>
           [] call.pc = "reindex" ->
                LET rows == indexNodeForSearch(<<>>, call.local.updatedNode)
                    run  == InsertSearchRows(searchIndex, rows, 1)
                IN  IF AdapterGetNode(nodes, nodeId) = <<>>
                      THEN /\ last' = [last EXCEPT
                                !.calls[c].pc = "failed",
                                !.calls[c].result = "FOREIGN KEY constraint failed"]
                           /\ UNCHANGED <<nodes, searchIndex, returned>>
                      ELSE /\ searchIndex' = run.idx
                           /\ last' =
                                IF run.failed
                                  THEN [last EXCEPT
                                          !.calls[c].pc = "failed",
                                          !.calls[c].result = "UNIQUE constraint failed"]
                                  ELSE [last EXCEPT
                                          !.calls[c].pc = "done",
                                          !.calls[c].result =
                                             <<normalizeNode(call.local.updatedNode)>>]
                           /\ UNCHANGED <<nodes, returned>>
  /\ UNCHANGED <<edges, nodeIndex, edgeIndex, initialized>>

\* close: adapter.close(), then this.initialized = false
closeStep(c) ==
  /\ last.op = "calls" /\ c \in DOMAIN last.calls
  /\ last.calls[c].op = "close"
  /\ last.calls[c].pc \in {"start", "closing"}
  /\ IF last.calls[c].pc = "start"
       THEN /\ last' = [last EXCEPT !.calls[c].pc = "closing"]
            /\ UNCHANGED initialized
       ELSE /\ initialized' = FALSE
            /\ last' = [last EXCEPT !.calls[c].pc = "done", !.adapterInitializeCalls = 0]
  /\ UNCHANGED <<nodes, edges, nodeIndex, edgeIndex, searchIndex, returned>>

(***************************************************************************)
(* The specification of calls under way together: two plain nodes, then    *)
(* pairs of calls whose segments interleave in every order, and close.     *)
(***************************************************************************)
MaxCallNodes == 2    \* node ids available to the specification of calls
MaxCallEdges == 2    \* edge ids available to the specification of calls
MaxCalls == 2        \* the calls under way at the same time

CallNodeIds == {NodeIdOf(i) : i \in 1..MaxCallNodes}

CallEdgeOptionsSet ==
  { [type |-> "KNOWS", fromNodeId |-> NodeIdOf(1), toNodeId |-> NodeIdOf(2)],
    [type |-> "KNOWS", fromNodeId |-> NodeIdOf(2), toNodeId |-> NodeIdOf(1),
     bidirectional |-> TRUE] }

UpdateBio ==
  NewCall("updateNode", [nodeId |-> NodeIdOf(1), mergeProperties |-> TRUE,
                         updates |-> [properties |-> <<<<"bio", StringValue(TextAdaB)>>>>]])

UpdateCity ==
  NewCall("updateNode", [nodeId |-> NodeIdOf(1), mergeProperties |-> TRUE,
                         updates |-> [properties |-> <<<<"city", StringValue(TextC)>>>>]])

CallBatches ==
  { <<NewCall("addEdge", options), NewCall("deleteNode", nodeId)>> :
      options \in CallEdgeOptionsSet, nodeId \in CallNodeIds }
  \cup { <<UpdateBio, UpdateCity>>,
         <<UpdateBio, NewCall("deleteNode", NodeIdOf(1))>>,
         <<NewCall("deleteNode", NodeIdOf(1)), NewCall("deleteNode", NodeIdOf(2))>>,
         <<NewCall("close", <<>>)>> }

NextCalls ==
  \/ last.op # "calls" /\ \E options \in PlainNodeOptionsSet : addNode(options, MaxCallNodes)
  \/ \E batch \in CallBatches : startCalls(batch, MaxCallEdges)
  \/ \E c \in 1..MaxCalls : callStart(c)
  \/ \E c \in 1..MaxCalls : callInitialized(c)
  \/ \E c \in 1..MaxCalls : deleteNodeStep(c)
  \/ \E c \in 1..MaxCalls : addEdgeStep(c, MaxCallEdges)
  \/ \E c \in 1..MaxCalls : updateNodeStep(c)
  \/ \E c \in 1..MaxCalls : closeStep(c)

SpecCalls == Init /\ [][NextCalls]_vars

(***************************************************************************)
(* Properties of the store and of the node operations.                     *)
(***************************************************************************)
StoredNodeIds == {nodes[i].id : i \in 1..Len(nodes)}
StoredEdgeIds == {edges[i].id : i \in 1..Len(edges)}

\* C1: after deleteNode(id) no stored edge has fromNodeId or toNodeId equal
\* to id: the edges of the node go in the operation that removes the node.
C1_DeleteNodeCascadesEdges ==
  last.op = "deleteNode" =>
    \A i \in 1..Len(edges) :
      edges[i].fromNodeId # last.arg /\ edges[i].toNodeId # last.arg

\* a deleteNode that removed a node together with edges of it
C1_Witness ==
  /\ last.op = "deleteNode"
  /\ last.result = TRUE
  /\ last.cascaded # {}
  /\ edges # <<>>

\* C2: an addEdge call whose fromNodeId or toNodeId names no stored node
\* throws, and leaves kg_edges and kg_edge_indices as they were.
C2_AddEdgeMissingEndpointThrows ==
  [][ (/\ last'.op = "addEdge"
       /\ \/ last'.arg.fromNodeId \notin StoredNodeIds
          \/ last'.arg.toNodeId \notin StoredNodeIds)
      => (/\ Has(last'.result, "error")
          /\ edges' = edges
          /\ edgeIndex' = edgeIndex) ]_vars

\* an addEdge that threw on a store that holds a node and an edge, the
\* missing endpoint being the target
C2_Witness ==
  /\ last.op = "addEdge"
  /\ Has(last.result, "error")
  /\ last.arg.fromNodeId \in StoredNodeIds
  /\ last.arg.toNodeId \notin StoredNodeIds
  /\ edges # <<>>

\* C3: the node addNode returns carries the supplied type, label and
\* properties, and its confidence is the supplied one for every supplied
\* value (0 included), 1.0 only when none was supplied.
C3_AddNodeReturnsSupplied ==
  last.op = "addNode" =>
    /\ last.result.type = last.arg.type
    /\ last.result.label = last.arg.label
    /\ ObjAsMap(last.result.properties)
         = (IF Has(last.arg, "properties") THEN ObjAsMap(last.arg.properties) ELSE <<>>)
    /\ last.result.confidence
         = (IF Has(last.arg, "confidence") THEN last.arg.confidence ELSE 100)

\* C4: getNode(id) returns the node addNode returned for id, as long as id
\* was not updated or deleted since, whatever else was added or deleted.
C4_GetNodeReturnsCreated ==
  (last.op = "getNode" /\ last.arg \in DOMAIN returned) =>
    last.result = <<returned[last.arg]>>

\* a getNode of a node as created, on a store with a second node and an edge
C4_Witness ==
  /\ last.op = "getNode"
  /\ last.arg \in DOMAIN returned
  /\ Has(returned[last.arg], "sourceSessionIds")
  /\ Len(nodes) = 2
  /\ edges # <<>>

\* C5: the node index holds the row (type:T, id) exactly for the stored
\* nodes id of current type T.
C5_NodeIndexMatchesTypes ==
  nodeIndex = {[indexKey |-> "type:" \o nodes[i].type, nodeId |-> nodes[i].id] :
                 i \in 1..Len(nodes)}

\* the pieces of a text between its runs of whitespace, in lower case: the
\* stretches without whitespace that reach from the start of the text or a
\* whitespace character to the end of the text or a whitespace character; an
\* empty stretch counts only at the start or the end of the text
TokensOf(text) ==
  LET low == toLowerCase(text)
      n   == Len(low)
  IN  { SubSeq(low, i, j) : <<i, j>> \in
          { p \in (1..(n + 1)) \X (0..n) :
              /\ p[1] <= p[2] + 1
              /\ \A k \in p[1]..p[2] : low[k] \notin {" ", "\t", "\n"}
              /\ (p[1] = 1 \/ low[p[1] - 1] \in {" ", "\t", "\n"})
              /\ (p[2] = n \/ low[p[2] + 1] \in {" ", "\t", "\n"})
              /\ (p[2] = p[1] - 1 => (p[1] = 1 \/ p[1] = n + 1)) } }

\* the tokens of the label and of the string-valued properties of a stored row
TokensOfRow(row) ==
  LET props == JSONParse(row.properties)
  IN  TokensOf(row.label)
      \cup UNION { TokensOf(props[i][2].v) :
                     i \in {k \in 1..Len(props) : props[k][2].t = "string"} }

C7_EdgeIndexMatchesEdges ==
  edgeIndex =
    UNION { { [indexKey |-> "from:" \o edges[i].fromNodeId \o ":" \o edges[i].type,
               edgeId |-> edges[i].id],
              [indexKey |-> "to:" \o edges[i].toNodeId \o ":" \o edges[i].type,
               edgeId |-> edges[i].id],
              [indexKey |-> "type:" \o edges[i].type, edgeId |-> edges[i].id] } :
            i \in 1..Len(edges) }

\* a deleteNode whose cascade removed an edge while another edge stays
C7_Witness ==
  /\ last.op = "deleteNode"
  /\ last.cascaded # {}
  /\ edges # <<>>
  /\ Cardinality(edgeIndex) = 3

(***************************************************************************)
(* Properties of the traversals.                                           *)
(***************************************************************************)
\* an edge the allow-list of options permits
Permitted(edge, options) ==
  ~Has(options, "edgeTypes") \/ edge.type \in Range(options.edgeTypes)

\* the nodes one permitted edge away from a node of S, in the direction asked
OneHop(S, direction, options) ==
  { edges[i].toNodeId :
      i \in {k \in 1..Len(edges) : /\ direction \in {"out", "both"}
                                   /\ edges[k].fromNodeId \in S
                                   /\ Permitted(edges[k], options)} }
  \cup
  { edges[i].fromNodeId :
      i \in {k \in 1..Len(edges) : /\ direction \in {"in", "both"}
                                   /\ edges[k].toNodeId \in S
                                   /\ Permitted(edges[k], options)} }

RECURSIVE WithinHops(_, _, _, _)
\* the nodes at hop distance at most d from start
WithinHops(start, d, direction, options) ==
  IF d = 0 THEN {start}
  ELSE LET near == WithinHops(start, d - 1, direction, options)
       IN  near \cup OneHop(near, direction, options)

ResultNodeIds(result) == {result.nodes[i].id : i \in 1..Len(result.nodes)}

\* C8: queryRelated with depth d >= 1 returns exactly the nodes at hop
\* distance at most d from the start node, along the edges the direction and
\* the allow-list permit.
C8_QueryRelatedReturnsNeighbourhood ==
  (/\ last.op = "queryRelated"
   /\ last.arg.nodeId \in StoredNodeIds
   /\ Has(last.arg.options, "depth")
   /\ last.arg.options.depth >= 1)
  => ResultNodeIds(last.result)
       = WithinHops(last.arg.nodeId, last.arg.options.depth,
                    DirectionOrDefault(last.arg.options), last.arg.options)

\* C9: queryRelated with depth 0 on a stored start node returns the start
\* node alone and no edge.
C9_QueryRelatedDepthZero ==
  (/\ last.op = "queryRelated"
   /\ last.arg.nodeId \in StoredNodeIds
   /\ Has(last.arg.options, "depth")
   /\ last.arg.options.depth = 0)
  => /\ ResultNodeIds(last.result) = {last.arg.nodeId}
     /\ Len(last.result.nodes) = 1
     /\ last.result.edges = <<>>

\* the least number of permitted outgoing edges from a node to another one
\* that it reaches
MinHops(fromNodeId, toNodeId, options) ==
  CHOOSE d \in 0..Len(nodes) :
    /\ toNodeId \in WithinHops(fromNodeId, d, "out", options)
    /\ \A c \in 0..(d - 1) : toNodeId \notin WithinHops(fromNodeId, c, "out", options)

C11_PathInRouteOrder ==
  (/\ last.op = "findShortestPath"
   /\ last.arg.fromNodeId \in StoredNodeIds
   /\ last.arg.toNodeId \in StoredNodeIds
   /\ last.result # <<>>)
  => LET path == last.result[1]
     IN  /\ path.length = Len(path.edges)
         /\ Len(path.nodes) = path.length + 1
         /\ path.nodes[1].id = last.arg.fromNodeId
         /\ path.nodes[Len(path.nodes)].id = last.arg.toNodeId
         /\ \A i \in 1..Len(path.edges) :
              /\ path.edges[i].fromNodeId = path.nodes[i].id
              /\ path.edges[i].toNodeId = path.nodes[i + 1].id

(***************************************************************************)
(* Properties of search.                                                   *)
(***************************************************************************)
\* C12: no node a search returns has an accumulated score below the supplied
\* minScore, and the returned nodes are in non-increasing order of
\* accumulated score.
C12_SearchThresholdAndOrder ==
  last.op = "search"
  => LET found == last.result.nodes
     IN  /\ \A i \in 1..Len(found) :
              /\ found[i].id \in DOMAIN last.scores
              /\ Has(last.arg, "minScore")
                   => last.scores[found[i].id] >= last.arg.minScore
         /\ \A i \in 1..(Len(found) - 1) :
              last.scores[found[i].id] >= last.scores[found[i + 1].id]

(***************************************************************************)
(* Properties of updates and of calls on ids that name nothing.            *)
(***************************************************************************)
\* the property map of the stored node with this id
StoredProperties(tbl, id) ==
  ObjAsMap(JSONParse((CHOOSE r \in Range(tbl) : r.id = id).properties))

\* C13: updateNode with properties P on a stored node stores, when
\* mergeProperties is true, the old map overridden key by key with P (keys
\* absent from P kept), and when it is false exactly P; on an id that is not
\* stored it returns null and changes nothing.
C13_UpdateNodeMergesOrReplaces ==
  [][ (last'.op = "updateNode" /\ Has(last'.arg.updates, "properties"))
      => LET id  == last'.arg.nodeId
             P   == ObjAsMap(last'.arg.updates.properties)
         IN  IF id \in StoredNodeIds
               THEN LET old == StoredProperties(nodes, id)
                        new == StoredProperties(nodes', id)
                    IN  /\ last'.result # <<>>
                        /\ ObjAsMap(last'.result[1].properties) = new
                        /\ IF last'.arg.mergeProperties
                             THEN new = [k \in DOMAIN old \cup DOMAIN P |->
                                           IF k \in DOMAIN P THEN P[k] ELSE old[k]]
                             ELSE new = P
               ELSE /\ last'.result = <<>>
                    /\ UNCHANGED <<nodes, edges, nodeIndex, edgeIndex, searchIndex>>
    ]_vars

\* a merging update has overridden one key and kept another
C13_Witness ==
  /\ last.op = "updateNode"
  /\ last.arg.mergeProperties
  /\ Has(last.arg.updates, "properties")
  /\ last.result # <<>>
  /\ ObjAsMap(last.result[1].properties)
       = [k \in {"bio", "age"} |->
            IF k = "bio" THEN StringValue(TextAdaB) ELSE NumberValue(7)]

\* C14: on an id that names no stored entity, getNode and updateNode return
\* null, deleteNode and deleteEdge return false and the stored state stays as
\* it is; deleteNode and deleteEdge return true only when they removed an
\* entity.
C14_AbsentIdReturnsNullOrFalse ==
  [][ LET kept == UNCHANGED <<nodes, edges, nodeIndex, edgeIndex, searchIndex>>
      IN  /\ (last'.op = "getNode" /\ last'.arg \notin StoredNodeIds)
               => (last'.result = <<>> /\ kept)
          /\ (last'.op = "updateNode" /\ last'.arg.nodeId \notin StoredNodeIds)
               => (last'.result = <<>> /\ kept)
          /\ last'.op = "deleteNode"
               => /\ last'.arg \notin StoredNodeIds => (last'.result = FALSE /\ kept)
                  /\ last'.result = TRUE => last'.arg \in StoredNodeIds
          /\ last'.op = "deleteEdge"
               => /\ last'.arg \notin StoredEdgeIds => (last'.result = FALSE /\ kept)
                  /\ last'.result = TRUE => last'.arg \in StoredEdgeIds
    ]_vars

(***************************************************************************)
(* Properties of edge creation.                                            *)
(***************************************************************************)
\* C15: addEdge with bidirectional set on two stored nodes a and b creates
\* exactly two edges of the requested type, the first from a to b and the
\* second from b to a, none of them asking for a further reverse edge, and
\* getEdgesBetween returns each for its own (from, to) pair.
C15_BidirectionalCreatesTwoEdges ==
  [][ (/\ last'.op = "addEdge"
       /\ IsBidirectional(last'.arg)
       /\ last'.arg.fromNodeId \in StoredNodeIds
       /\ last'.arg.toNodeId \in StoredNodeIds)
      => LET a == last'.arg.fromNodeId
             b == last'.arg.toNodeId
             n == Len(edges)
         IN  /\ Len(edges') = n + 2
             /\ SubSeq(edges', 1, n) = edges
             /\ edges'[n + 1].type = last'.arg.type
             /\ edges'[n + 1].fromNodeId = a /\ edges'[n + 1].toNodeId = b
             /\ edges'[n + 2].type = last'.arg.type
             /\ edges'[n + 2].fromNodeId = b /\ edges'[n + 2].toNodeId = a
             /\ edges'[n + 1].id # edges'[n + 2].id
             /\ \E i \in DOMAIN getEdgesBetween(edges', a, b, <<>>) :
                  getEdgesBetween(edges', a, b, <<>>)[i].id = edges'[n + 1].id
             /\ \E i \in DOMAIN getEdgesBetween(edges', b, a, <<last'.arg.type>>) :
                  getEdgesBetween(edges', b, a, <<last'.arg.type>>)[i].id = edges'[n + 2].id
             /\ Has(last'.result, "edge") /\ last'.result.edge.id = edges'[n + 1].id
    ]_vars

\* a bidirectional addEdge between two different nodes has stored its pair
C15_Witness ==
  /\ last.op = "addEdge"
  /\ IsBidirectional(last.arg)
  /\ Has(last.result, "edge")
  /\ last.arg.fromNodeId # last.arg.toNodeId
  /\ Len(edges) = 2
  /\ edges[1].fromNodeId = edges[2].toNodeId
  /\ edges[1].toNodeId = edges[2].fromNodeId

(***************************************************************************)
(* Properties of the batch operations.                                     *)
(***************************************************************************)
\* whether the creation of this request raises on its own: a node request
\* without a label, an edge request naming a node that is not stored
RequestRaises(op, item) ==
  IF op = "batchAddNodes"
    THEN "label" \notin DOMAIN item
    ELSE item.fromNodeId \notin StoredNodeIds \/ item.toNodeId \notin StoredNodeIds

\* C16: for every list of requests given to batchAddNodes or batchAddEdges,
\* successful + failed is the number of requests, failed is the number of
\* requests whose creation raises, and errors holds one entry per failed
\* request, with that request as its item.
C16_BatchCountsAddUp ==
  last.op \in {"batchAddNodes", "batchAddEdges"}
  => LET items   == last.arg
         raising == SelectSeq(items, LAMBDA item : RequestRaises(last.op, item))
         errors  == IF "errors" \in DOMAIN last.result THEN last.result.errors ELSE <<>>
     IN  /\ last.result.successful + last.result.failed = Len(items)
         /\ last.result.failed = Len(raising)
         /\ Len(errors) = Len(raising)
         /\ \A j \in 1..Len(errors) : errors[j].item = raising[j]

\* a batch of edges in which one request was stored and another one raised
C16_Witness ==
  /\ last.op = "batchAddEdges"
  /\ last.result.successful >= 1
  /\ last.result.failed >= 1
  /\ Len(last.result.errors) = last.result.failed

\* the (type, from, to) triples of the edges a list of requests stores, in
\* the order of the requests
RECURSIVE EdgesExpected(_)
EdgesExpected(items) ==
  IF items = <<>> THEN <<>>
  ELSE LET o    == Head(items)
           here == IF RequestRaises("batchAddEdges", o) THEN <<>>
                   ELSE IF "bidirectional" \in DOMAIN o /\ o.bidirectional
                     THEN << <<o.type, o.fromNodeId, o.toNodeId>>,
                             <<o.type, o.toNodeId, o.fromNodeId>> >>
                     ELSE << <<o.type, o.fromNodeId, o.toNodeId>> >>
       IN  here \o EdgesExpected(Tail(items))

\* C17: a batch does not stop or undo at a request that fails: after the
\* call the table holds what it held before, followed by the rows of every
\* request that does not raise, whether it stands before or after a failing
\* one, and the call returns its report.
C17_BatchKeepsGoing ==
  [][ /\ last'.op = "batchAddNodes"
        => LET good == SelectSeq(last'.arg, LAMBDA o : ~RequestRaises("batchAddNodes", o))
           IN  /\ Len(nodes') = Len(nodes) + Len(good)
               /\ SubSeq(nodes', 1, Len(nodes)) = nodes
               /\ \A j \in 1..Len(good) :
                    /\ nodes'[Len(nodes) + j].label = good[j].label
                    /\ nodes'[Len(nodes) + j].type = good[j].type
               /\ last'.result.successful = Len(good)
      /\ last'.op = "batchAddEdges"
        => LET want == EdgesExpected(last'.arg)
           IN  /\ Len(edges') = Len(edges) + Len(want)
               /\ SubSeq(edges', 1, Len(edges)) = edges
               /\ \A j \in 1..Len(want) :
                    LET row == edges'[Len(edges) + j]
                    IN  <<row.type, row.fromNodeId, row.toNodeId>> = want[j]
               /\ last'.result.successful + last'.result.failed = Len(last'.arg)
    ]_vars

\* the second of three edge requests failed; the first and the third are stored
C17_Witness ==
  /\ last.op = "batchAddEdges"
  /\ Len(last.arg) = 3
  /\ last.result.successful = 2
  /\ last.result.failed = 1
  /\ last.result.errors[1].item = last.arg[2]
  /\ Len(edges) >= 2

(***************************************************************************)
(* Properties of the analytics.                                            *)
(***************************************************************************)
\* C18: on a graph of N >= 1 nodes and no edges, pageRank gives every node
\* the rank 1/N, for every iteration count and every damping factor.
C18_PageRankIsolatedIsUniform ==
  (last.op = "pageRank" /\ edges = <<>> /\ Len(nodes) >= 1)
  => /\ DOMAIN last.result = StoredNodeIds
     /\ \A id \in StoredNodeIds :
          /\ last.result[id].num * Len(nodes) = last.result[id].den
          /\ last.result[id].den > 0

\* whether two different nodes are joined by an edge in either direction
Adjacent(v, w) ==
  /\ v # w
  /\ \E i \in 1..Len(edges) :
       \/ (edges[i].fromNodeId = v /\ edges[i].toNodeId = w)
       \/ (edges[i].fromNodeId = w /\ edges[i].toNodeId = v)

IsClique(S) == \A v \in S, w \in S : v # w => Adjacent(v, w)

\* the maximal cliques of the whole graph with at least minSize members
MaximalCliques(minSize) ==
  { S \in SUBSET StoredNodeIds :
      /\ S # {}
      /\ IsClique(S)
      /\ \A v \in StoredNodeIds \ S : ~IsClique(S \cup {v})
      /\ Cardinality(S) >= minSize }

\* C19: findCliques(minSize) returns exactly the maximal sets of pairwise
\* adjacent nodes (adjacency in either direction) with at least minSize
\* members, over all nodes of the graph, each once.
C19_FindCliquesReturnsMaximalCliques ==
  last.op = "findCliques"
  => /\ Range(last.result) = MaximalCliques(last.arg)
     /\ Len(last.result) = Cardinality(Range(last.result))

(***************************************************************************)
(* Properties of failing index writes.                                     *)
(***************************************************************************)
\* C20: when an index write of an addNode or addEdge call fails, the call
\* raises and the node or edge row of that call is not left stored without
\* its index rows: either the row is gone or its type, search and adjacency
\* rows are all there.
C20_EntityAndIndexWrittenAsUnit ==
  (last.op \in {"addNode", "addEdge"} /\ "failedWrite" \in DOMAIN last)
  => /\ "error" \in DOMAIN last.result
     /\ last.op = "addNode"
          => \A i \in 1..Len(nodes) :
               nodes[i].id = last.id
               => /\ [indexKey |-> "type:" \o nodes[i].type, nodeId |-> last.id] \in nodeIndex
                  /\ TokensOfRow(nodes[i])
                       \subseteq {searchIndex[m].term :
                                    m \in {n \in 1..Len(searchIndex) :
                                             searchIndex[n].nodeId = last.id}}
     /\ last.op = "addEdge"
          => \A i \in 1..Len(edges) :
               edges[i].id = last.id
               => { [indexKey |-> "from:" \o edges[i].fromNodeId \o ":" \o edges[i].type,
                     edgeId |-> last.id],
                    [indexKey |-> "to:" \o edges[i].toNodeId \o ":" \o edges[i].type,
                     edgeId |-> last.id],
                    [indexKey |-> "type:" \o edges[i].type, edgeId |-> last.id] }
                    \subseteq edgeIndex

(***************************************************************************)
(* Properties of the structure analyses.                                   *)
(***************************************************************************)
RECURSIVE JoinedWithin(_, _)
\* the nodes joined to v by a path of at most d edges, direction ignored
JoinedWithin(v, d) ==
  IF d = 0 THEN {v}
  ELSE LET near == JoinedWithin(v, d - 1)
       IN  near \cup {w \in StoredNodeIds : \E u \in near : Adjacent(u, w)}

\* C21: findConnectedComponents returns a partition of all stored nodes,
\* whatever their type: every stored node is in exactly one returned set, and
\* two nodes share a set exactly when a path that ignores edge direction
\* joins them.
C21_ComponentsPartitionAllNodes ==
  last.op = "findConnectedComponents"
  => LET found == last.result
     IN  /\ \A v \in StoredNodeIds :
              Cardinality({i \in 1..Len(found) : v \in found[i]}) = 1
         /\ \A i \in 1..Len(found) : found[i] \subseteq StoredNodeIds /\ found[i] # {}
         /\ \A v \in StoredNodeIds, w \in StoredNodeIds :
              (\E i \in 1..Len(found) : v \in found[i] /\ w \in found[i])
                <=> w \in JoinedWithin(v, Len(nodes))

RECURSIVE ReachedAfter(_, _)
\* the nodes reached from the set S along directed edges in 1..d steps
ReachedAfter(S, d) ==
  IF d = 0 THEN {}
  ELSE LET next == {edges[i].toNodeId : i \in {k \in 1..Len(edges) : edges[k].fromNodeId \in S}}
       IN  next \cup ReachedAfter(next, d - 1)

\* some node reaches itself along one or more directed edges
HasDirectedCycle == \E v \in StoredNodeIds : v \in ReachedAfter({v}, Len(nodes))

\* C22: detectCycles returns a non-empty list exactly when the stored graph
\* has a directed cycle (a self-loop counts), and every reported cycle is
\* closed: its i-th edge runs from its i-th node to the next one and its last
\* edge from the last node back to the first.
C22_CyclesFoundAndClosed ==
  last.op = "detectCycles"
  => /\ (last.result # <<>>) <=> HasDirectedCycle
     /\ \A c \in 1..Len(last.result) :
          LET cyc == last.result[c]
              n   == Len(cyc.nodes)
          IN  /\ n >= 1
              /\ Len(cyc.edges) = n
              /\ \A i \in 1..n :
                   /\ cyc.edges[i].fromNodeId = cyc.nodes[i]
                   /\ cyc.edges[i].toNodeId = cyc.nodes[IF i = n THEN 1 ELSE i + 1]

(***************************************************************************)
(* Properties of traverse                                                  *)
(***************************************************************************)
\* the node ids one hop from the set S along the edges the options allow
TraverseHop(options, S) ==
  LET direction == IF Has(options, "direction") THEN options.direction ELSE "undefined"
  IN  { edges[i].toNodeId : i \in { j \in 1..Len(edges) :
            /\ direction \in {"out", "both"}
            /\ edges[j].fromNodeId \in S
            /\ ~TypeExcluded(options, edges[j].type) } }
      \cup
      { edges[i].fromNodeId : i \in { j \in 1..Len(edges) :
            /\ direction \in {"in", "both"}
            /\ edges[j].toNodeId \in S
            /\ ~TypeExcluded(options, edges[j].type) } }

RECURSIVE TraverseWithin(_, _, _)
\* the node ids at hop distance at most d from the set S
TraverseWithin(options, S, d) ==
  IF d = 0 THEN S ELSE TraverseWithin(options, S \cup TraverseHop(options, S), d - 1)

\* C23: a traverse call given maxDepth = d returns only nodes whose hop
\* distance from the start node is at most d, for every d >= 0; with d = 0
\* it returns only the start node.
C23_TraverseWithinMaxDepth ==
  (last.op = "traverse" /\ last.pc = "done" /\ Has(last.arg, "maxDepth"))
    => \A i \in 1..Len(last.result.nodes) :
         last.result.nodes[i].id
           \in TraverseWithin(last.arg, {last.arg.startNodeId}, last.arg.maxDepth)

\* a traverse call with visitOnce left at its default and no maxDepth
DefaultTraverse ==
  last.op = "traverse" /\ ~Has(last.arg, "visitOnce") /\ ~Has(last.arg, "maxDepth")

\* no value occurs twice in the sequence s
NoRepeat(s) == \A i, j \in 1..Len(s) : s[i] = s[j] => i = j

\* C24: with visitOnce left at its default and no maxDepth given, a traverse
\* call terminates on every finite graph, cyclic ones included; it expands
\* each node at most once, and no node appears twice in the result.
C24_TraverseTerminatesVisitingOnce ==
  /\ [](DefaultTraverse => NoRepeat(last.expanded))
  /\ []((DefaultTraverse /\ last.pc = "done")
          => NoRepeat([i \in 1..Len(last.result.nodes) |-> last.result.nodes[i].id]))
  /\ ((DefaultTraverse /\ last.pc = "loop") ~> (DefaultTraverse /\ last.pc = "done"))

\* a finished default traversal that went round a cycle through its start node
C24_Witness ==
  /\ DefaultTraverse
  /\ last.pc = "done"
  /\ \E i \in 1..Len(edges), k \in 1..Len(last.result.nodes) :
       /\ edges[i].toNodeId = last.arg.startNodeId
       /\ edges[i].fromNodeId # last.arg.startNodeId
       /\ edges[i].fromNodeId = last.result.nodes[k].id
       /\ Has(last.arg, "direction") /\ last.arg.direction = "out"

(***************************************************************************)
(* Properties of the search limit                                          *)
(***************************************************************************)
RECURSIVE MatchingWeight(_, _, _)
\* the sum of the weights of the rows of idx, from the k-th on, that belong to
\* the node and whose term contains the query term
MatchingWeight(idx, nodeId, term) ==
  IF idx = <<>> THEN 0
  ELSE (IF Head(idx).nodeId = nodeId /\ Contains(Head(idx).term, term)
          THEN Head(idx).weight ELSE 0)
       + MatchingWeight(Tail(idx), nodeId, term)

RECURSIVE FullScore(_, _)
\* the score of the node over all its index rows, added over the query terms
FullScore(nodeId, searchTerms) ==
  IF searchTerms = <<>> THEN 0
  ELSE MatchingWeight(searchIndex, nodeId, Head(searchTerms))
       + FullScore(nodeId, Tail(searchTerms))

\* C25: a search without minScore and nodeTypes returns the limit
\* highest-scoring nodes, the score of a node being the sum of the weights of
\* all its search-index rows whose term contains a query term, added over
\* all query terms: as many nodes as the limit allows, and never a node in
\* place of one with a higher such sum.
C25_SearchReturnsHighestScoring ==
  (last.op = "search" /\ ~Has(last.arg, "minScore") /\ ~Has(last.arg, "nodeTypes"))
  => LET searchTerms == SplitWhitespace(toLowerCase(last.arg.query))
         found       == {last.result.nodes[i].id : i \in 1..Len(last.result.nodes)}
         scoring     == {id \in StoredNodeIds : FullScore(id, searchTerms) > 0}
         limit       == LimitOrDefault(last.arg)
     IN  /\ found \subseteq scoring
         /\ Cardinality(found) = (IF Cardinality(scoring) <= limit
                                    THEN Cardinality(scoring) ELSE limit)
         /\ \A x \in found, y \in scoring \ found :
              FullScore(y, searchTerms) <= FullScore(x, searchTerms)

(***************************************************************************)
(* Properties of the clustering coefficient                                *)
(***************************************************************************)
\* the depth-1 neighbours of the node: the other nodes an edge joins to it
NeighboursOf(v) == {w \in StoredNodeIds : Adjacent(v, w)}

\* the unordered pairs of distinct neighbours of the node that are adjacent
JoinedPairs(v) ==
  { p \in SUBSET NeighboursOf(v) :
      Cardinality(p) = 2 /\ \A x \in p, y \in p : x # y => Adjacent(x, y) }

\* C26: clusteringCoefficient(n) is the number of unordered pairs of distinct
\* depth-1 neighbours of n joined by an edge in either direction, divided by
\* k(k-1)/2 for k neighbours; it is 0 when k < 2 and always lies in [0, 1].
C26_ClusteringCoefficientCountsJoinedPairs ==
  last.op = "clusteringCoefficient"
  => LET k == Cardinality(NeighboursOf(last.arg))
     IN  /\ last.result.num >= 0 /\ last.result.num <= last.result.den
         /\ last.result = IF k < 2 THEN Frac(0, 1)
                          ELSE Frac(Cardinality(JoinedPairs(last.arg)), (k * (k - 1)) \div 2)

(***************************************************************************)
(* Properties of community detection                                       *)
(***************************************************************************)
\* how many depth-1 neighbours of v carry the label under the labelling
LabelCount(v, labelling, label) ==
  Cardinality({w \in NeighboursOf(v) \cap DOMAIN labelling : labelling[w] = label})

\* the labels most frequent among the depth-1 neighbours of v
MostFrequentLabels(v, labelling) ==
  LET present == {labelling[w] : w \in NeighboursOf(v) \cap DOMAIN labelling}
  IN  {l \in present : \A m \in present : LabelCount(v, labelling, m) <= LabelCount(v, labelling, l)}

\* C27: detectCommunities is synchronous: every stored node carries a label,
\* and in each round the new label of every node is a most frequent label
\* among its depth-1 neighbours as the labels stood at the start of the
\* round (its old label when no neighbour has one), whatever the order in
\* which the nodes are processed.
C27_CommunitiesSynchronous ==
  last.op = "detectCommunities"
  => /\ DOMAIN last.result = StoredNodeIds
     /\ \A r \in 1..(Len(last.rounds) - 1) :
          \A v \in DOMAIN last.rounds[r] :
            LET before == last.rounds[r]
                after  == last.rounds[r + 1]
            IN  IF MostFrequentLabels(v, before) = {}
                  THEN after[v] = before[v]
                  ELSE after[v] \in MostFrequentLabels(v, before)

(***************************************************************************)
(* Properties of calls under way together                                  *)
(***************************************************************************)
\* the calls handed over together are an addEdge and a deleteNode of one of
\* its endpoints, and both have finished
AddEdgeWithDeleteNodeFinished ==
  /\ last.op = "calls"
  /\ Len(last.calls) = 2
  /\ last.calls[1].op = "addEdge"
  /\ last.calls[2].op = "deleteNode"
  /\ last.calls[2].arg \in {last.calls[1].arg.fromNodeId, last.calls[1].arg.toNodeId}
  /\ \A c \in DOMAIN last.calls : CallFinished(last.calls[c])

\* C28: in every interleaving of an addEdge call with a deleteNode call on
\* one of its endpoints, the state after both calls have finished holds no
\* edge that references a missing node, and no edge at the deleted node:
\* either addEdge fails or the new edge is removed with the node.
C28_NoDanglingEdgeAfterAddEdgeAndDeleteNode ==
  AddEdgeWithDeleteNodeFinished
  => /\ \A i \in 1..Len(edges) :
          /\ edges[i].fromNodeId \in StoredNodeIds
          /\ edges[i].toNodeId \in StoredNodeIds
     /\ last.calls[2].arg \notin StoredNodeIds
     /\ \A r \in edgeIndex : r.edgeId \in {edges[i].id : i \in 1..Len(edges)}

\* the edge was inserted while both endpoints were stored, and the deleteNode
\* that ran afterwards took it away with the node
C28_Witness ==
  /\ AddEdgeWithDeleteNodeFinished
  /\ Has(last.calls[1].local, "id")
  /\ last.calls[2].result = TRUE
  /\ last.calls[1].local.id \notin {edges[i].id : i \in 1..Len(edges)}

\* C29: when two updateNode calls with mergeProperties = true set disjoint
\* property keys on the same stored node and their segments interleave, the
\* node stored after both calls have finished holds the keys of both calls.
C29_ConcurrentMergesKeepBothKeys ==
  (/\ last.op = "calls"
   /\ Len(last.calls) = 2
   /\ \A c \in DOMAIN last.calls :
        /\ last.calls[c].op = "updateNode"
        /\ last.calls[c].arg.mergeProperties
        /\ CallFinished(last.calls[c])
   /\ last.calls[1].arg.nodeId = last.calls[2].arg.nodeId
   /\ ObjKeys(last.calls[1].arg.updates.properties)
        \cap ObjKeys(last.calls[2].arg.updates.properties) = {}
   /\ last.calls[1].arg.nodeId \in StoredNodeIds)
  => \A c \in DOMAIN last.calls :
       \A key \in ObjKeys(last.calls[c].arg.updates.properties) :
         /\ key \in DOMAIN StoredProperties(nodes, last.calls[c].arg.nodeId)
         /\ StoredProperties(nodes, last.calls[c].arg.nodeId)[key]
              = ObjAsMap(last.calls[c].arg.updates.properties)[key]

\* C30: between construction (or a close) and the next close the graph calls
\* adapter.initialize at most once, also when several operations are started
\* together on a graph that is not yet initialized.
C30_AdapterInitializedAtMostOnce ==
  last.op = "calls" => last.adapterInitializeCalls <= 1

====
